---------------------------- MODULE Spec2Model ----------------------------
(***************************************************************************)
(* A model of api-aggregator: the local content store (LocalDataService),  *)
(* the acquisition orchestrator (DataService.fetch), the entry registry    *)
(* (APIEntryManager over SQLiteDatabase), the batch verifier               *)
(* (RemoteDataService.stream_test_apis) and the cron scheduler             *)
(* (APISchedulerService).                                                  *)
(*                                                                         *)
(* Strings whose structure matters (dataset names, file paths, texts,      *)
(* keywords) are sequences of tokens, so that prefixes, suffixes and       *)
(* substrings are computed and not looked up.                              *)
(***************************************************************************)
EXTENDS Integers, Sequences, FiniteSets, TLC

VARIABLES
    \* ---- content store (LocalDataService) ----
    textFiles,   \* the files of local/text: path -> file
    binDirs,     \* the dataset directories of local/image: name -> directory
    clock,       \* the file system's modification clock (st_mtime_ns)
    storeKey,    \* the dataset (data type, name) a run of the store works on
    storeLast,   \* the last store operation and what it returned
    \* ---- concurrent save_data calls on one LocalDataService ----
    datasetLocks, \* _dataset_locks: the keys a lock exists for
    lockHolder,   \* per dataset key: the task holding its lock, or NoTask
    savers,       \* per task: its save_data call (position and locals)
    \* ---- entry registry (APIEntryManager, SQLiteDatabase) ----
    entries,     \* APIEntryManager.entries
    pool,        \* APIEntryManager.pool
    dbPool,      \* SQLiteDatabase.api_pool
    aliased,     \* whether pool and db.api_pool are the same list object
    table,       \* the rows of the api_pool table
    regLast,     \* the last registry operation and what it returned
    \* ---- batch verifier (RemoteDataService.stream_test_apis) ----
    batch,       \* one run of stream_test_apis
    \* ---- scheduler (APISchedulerService over AsyncIOScheduler) ----
    jobs,        \* the job table of the AsyncIOScheduler
    started,     \* APISchedulerService._started
    running,     \* AsyncIOScheduler.running
    schedLast,   \* the last scheduler operation or firing and its outcome
    \* ---- site registry (SiteEntryManager, SQLiteDatabase) ----
    siteMgrEntries, \* SiteEntryManager.entries
    sitePool,    \* SQLiteDatabase.site_pool
    \* ---- lock table of the store, process restarts ----
    lockCalls,   \* _dataset_locks, _locks_guard and the _get_dataset_lock calls
    restart,     \* RuntimeControlService: its process restart lock and tasks
    \* ---- calls whose argument and result are studied ----
    applied      \* the function applied last, its argument and its result

storeVars == <<textFiles, binDirs, clock, storeKey, storeLast>>
concVars == <<datasetLocks, lockHolder, savers>>
regVars == <<entries, pool, dbPool, aliased, table, regLast>>
batchVars == <<batch>>
schedVars == <<jobs, started, running, schedLast>>
siteVars == <<siteMgrEntries, sitePool>>
ctlVars == <<lockCalls, restart>>
pureVars == <<applied>>
vars ==
    <<storeVars, concVars, regVars, batchVars, schedVars, siteVars, ctlVars, pureVars>>

(***************************************************************************)
(* Bounds of the model.                                                    *)
(***************************************************************************)
MaxClock == 7        \* file writes explored per behaviour
MaxLines == 3        \* lines a text dataset's file holds at most
MaxEntries == 2      \* entries the registry holds at most
MaxRegOps == 3       \* registry operations per behaviour
MaxSchedOps == 4     \* steps of a behaviour with the scheduler
MaxNamed == 3        \* entries of a registry whose names are studied
MaxSavers == 3       \* save_data calls running at the same time
MaxDataOps == 4      \* store operations per behaviour over several datasets
MaxIoOps == 3        \* registry and pool file operations per behaviour
MaxLockCalls == 4    \* _get_dataset_lock calls per behaviour
MaxRestarts == 4     \* restart_process_async calls per behaviour

(***************************************************************************)
(* Generic helpers.                                                        *)
(***************************************************************************)
Range(s) == {s[i] : i \in 1..Len(s)}

\* p occurs somewhere in s
Occurs(p, s) ==
    \E i \in 0..(Len(s) - Len(p)) : SubSeq(s, i + 1, i + Len(p)) = p

Max(S) == CHOOSE x \in S : \A y \in S : y <= x

RECURSIVE SumLen(_)
SumLen(s) == IF s = <<>> THEN 0 ELSE Len(Head(s)) + 1 + SumLen(Tail(s))

(***************************************************************************)
(* Content store: data types, names, paths.                                *)
(***************************************************************************)
TEXT_INDEX_SUFFIX == <<".", "index", ".", "json">>
BINARY_INDEX_FILE == <<".", "index", ".", "json">>

\* DataType.get_default_ext
GetDefaultExt(ty) == IF ty = "text" THEN <<".", "json">> ELSE <<".", "jpg">>

IsText(ty) == ty = "text"
IsBinary(ty) == ty \in {"image", "video", "audio"}

\* The dataset names explored: a plain name, a name that is another name
\* followed by ".index", and a name that starts with a dot.
TextNames == {<<"x">>, <<"x", ".", "index">>}
BinNames == {<<"x">>, <<".", "x">>}

TextDataFile(name) == name \o GetDefaultExt("text")
TextIndexFile(name) == name \o TEXT_INDEX_SUFFIX

TextPaths ==
    {TextDataFile(n) : n \in TextNames} \cup {TextIndexFile(n) : n \in TextNames}

\* The texts and binary payloads explored.  A binary payload is named by its
\* SHA-256 digest, split into the first 8 hex digits and the rest.
Texts == {<<"a", "CR", "LF">>, <<"a", "LF">>, <<"b">>}
Payloads == {<<"h1", "p">>, <<"h1", "q">>, <<"h2", "r">>}

\* _hash_text / _hash_binary: SHA-256, collision free
HashText(t) == <<"sha256", t>>
HashBinary(b) == <<"sha256", b>>
HashPrefix(b) == b[1]

\* _save_text: str(data.text or "").replace("\r", "\n")
NormalizeText(t) == [i \in 1..Len(t) |-> IF t[i] = "CR" THEN "LF" ELSE t[i]]

(***************************************************************************)
(* Files of the text directory.                                            *)
(***************************************************************************)
NoFile ==
    [kind |-> "none", items |-> <<>>, hashes |-> {}, smtime |-> -1,
     ssize |-> -1, mtime |-> 0]

ListFile(items, now) ==
    [kind |-> "list", items |-> items, hashes |-> {}, smtime |-> -1,
     ssize |-> -1, mtime |-> now]

IndexFile(hashes, smtime, ssize, now) ==
    [kind |-> "index", items |-> <<>>, hashes |-> hashes, smtime |-> smtime,
     ssize |-> ssize, mtime |-> now]

Exists(F, path) == F[path].kind # "none"

\* st_size of the JSON text of a file
FileSize(f) ==
    IF f.kind = "list" THEN 2 + SumLen(f.items)
    ELSE 100 + Cardinality(f.hashes)

\* _text_file_signature
TextFileSignature(F, path) == <<F[path].mtime, FileSize(F[path])>>

\* _load_json_list: the list a file holds, [] when it holds none
LoadJsonList(F, path) == IF F[path].kind = "list" THEN F[path].items ELSE <<>>

\* A store state threaded through the steps of one operation.
St(F, now) == [files |-> F, now |-> now]

\* _write_json on a file of the text directory
WriteJson(st, path, file) ==
    [files |-> [st.files EXCEPT ![path] = [file EXCEPT !.mtime = st.now + 1]],
     now |-> st.now + 1]

\* _save_text_hashes
SaveTextHashes(st, textFile, indexFile, hashes) ==
    LET sig == TextFileSignature(st.files, textFile)
    IN WriteJson(st, indexFile, IndexFile(hashes, sig[1], sig[2], 0))

\* a _load_text_hashes that trusts whatever index it finds
C8_LoadTextHashesTrusting(st, textFile, indexFile, items) ==
    LET idx == st.files[indexFile]
    IN IF idx.kind = "index"
       THEN [hashes |-> idx.hashes, st |-> st, rebuilt |-> FALSE]
       ELSE LET rebuilt == {HashText(items[i]) : i \in 1..Len(items)}
            IN [hashes |-> rebuilt,
                st |-> SaveTextHashes(st, textFile, indexFile, rebuilt),
                rebuilt |-> TRUE]

\* _load_text_hashes: the hash set and the store after a possible rebuild
LoadTextHashes(st, textFile, indexFile, items) ==
    LET sig == TextFileSignature(st.files, textFile)
        idx == st.files[indexFile]
    IN IF idx.kind = "index" /\ idx.smtime = sig[1] /\ idx.ssize = sig[2]
       THEN [hashes |-> idx.hashes, st |-> st, rebuilt |-> FALSE]
       ELSE LET rebuilt == {HashText(items[i]) : i \in 1..Len(items)}
            IN [hashes |-> rebuilt,
                st |-> SaveTextHashes(st, textFile, indexFile, rebuilt),
                rebuilt |-> TRUE]


\* _save_text, the part before the dedup decision: create the file when it is
\* missing, load the items and the hash set (rebuilding a stale index)
SaveTextLoad(st, name) ==
    LET jsonFile == TextDataFile(name)
        indexFile == TextIndexFile(name)
        Loaded(items, loaded) ==
            [st |-> loaded.st, items |-> items, hashes |-> loaded.hashes,
             rebuilt |-> loaded.rebuilt]
        Load(st1) ==
            Loaded(LoadJsonList(st1.files, jsonFile),
                   LoadTextHashes(st1, jsonFile, indexFile,
                                  LoadJsonList(st1.files, jsonFile)))
    IN Load(IF Exists(st.files, jsonFile) THEN st
            ELSE WriteJson(st, jsonFile, ListFile(<<>>, 0)))

\* a dedup decision that never hits
C1_DedupNever(textHash, hashes) == FALSE

\* the dedup decision of _save_text
DedupHit(textHash, hashes) == textHash \in hashes

\* _save_text, the part from the dedup decision on, given the loaded items
\* and hashes
SaveTextStore(st, name, text, items, hashes) ==
    LET jsonFile == TextDataFile(name)
        indexFile == TextIndexFile(name)
        savedText == NormalizeText(text)
        textHash == HashText(savedText)
        dedupHit == DedupHit(textHash, hashes)
        stMiss == SaveTextHashes(
                      WriteJson(st, jsonFile,
                                ListFile(Append(items, savedText), 0)),
                      jsonFile, indexFile, hashes \cup {textHash})
        stHit == IF Exists(st.files, indexFile) THEN st
                 ELSE SaveTextHashes(st, jsonFile, indexFile, hashes)
    IN [st |-> IF dedupHit THEN stHit ELSE stMiss,
        saved |-> savedText, dup |-> dedupHit]

\* _save_text
SaveText(st, name, text) ==
    LET Result(loaded, stored) ==
            [st |-> stored.st, saved |-> stored.saved, dup |-> stored.dup,
             rebuilt |-> loaded.rebuilt]
        Stored(loaded) ==
            Result(loaded, SaveTextStore(loaded.st, name, text, loaded.items,
                                         loaded.hashes))
    IN Stored(SaveTextLoad(st, name))

(***************************************************************************)
(* Binary dataset directories.  A file of a dataset is named               *)
(* {name}_{seq}_{hash prefix}{ext}; the directory keeps the index          *)
(* .index.json, a map from full hash to file name.                         *)
(***************************************************************************)
NoDir == [exists |-> FALSE, files |-> {}, hasIndex |-> FALSE, index |-> {}]

BinFileName(name, seq, h8) ==
    name \o <<"_", ToString(seq), "_", h8>> \o GetDefaultExt("image")

\* _is_binary_data_file, for a file that exists
IsBinaryDataFile(fileName) ==
    fileName # BINARY_INDEX_FILE /\ Head(fileName) # "."

\* _list_binary_files
ListBinaryFiles(dir, name) ==
    {f \in dir.files : IsBinaryDataFile(BinFileName(name, f.seq, f.h8))}

\* _next_binary_sequence
NextBinarySequence(dir, name) ==
    LET seqs == {f.seq : f \in ListBinaryFiles(dir, name)}
    IN IF seqs = {} THEN 0 ELSE Max(seqs) + 1

PathExists(dir, seq, h8) == \E f \in dir.files : f.seq = seq /\ f.h8 = h8

\* a _save_binary that writes to the first name it computes
C36_FirstSequence(dir, seq, h8) == seq

\* the loop "while saved_path.exists(): seq += 1" of _save_binary
RECURSIVE FreeSequence(_, _, _)
FreeSequence(dir, seq, h8) ==
    IF PathExists(dir, seq, h8) THEN FreeSequence(dir, seq + 1, h8) ELSE seq

\* the path of a stored binary file, as a value
BinaryPath(seq, h8) == <<seq, h8>>

\* a _load_binary_index that never finds an entry
C29_LoadBinaryIndexEmpty(dir) == {}

\* _load_binary_index: {} when the index file is missing
LoadBinaryIndex(dir) == IF dir.hasIndex THEN dir.index ELSE {}

\* _save_binary
SaveBinary(dir0, name, binary) ==
    LET dir == [dir0 EXCEPT !.exists = TRUE]
        hashToFile == LoadBinaryIndex(dir)
        binaryHash == HashBinary(binary)
        existing == {e \in hashToFile : e.hash = binaryHash}
        hit == \E e \in existing : PathExists(dir, e.seq, e.h8)
        popped == hashToFile \ existing
        seq == FreeSequence(dir, NextBinarySequence(dir, name),
                            HashPrefix(binary))
        file == [seq |-> seq, h8 |-> HashPrefix(binary), data |-> binary]
        entry == [hash |-> binaryHash, seq |-> seq, h8 |-> HashPrefix(binary)]
    IN IF hit
       THEN [dir |-> dir, dup |-> TRUE,
             path |-> LET e == CHOOSE e \in existing : TRUE
                      IN BinaryPath(e.seq, e.h8)]
       ELSE [dir |-> [dir EXCEPT !.files = @ \cup {file},
                                 !.hasIndex = TRUE,
                                 !.index = popped \cup {entry}],
             dup |-> FALSE,
             path |-> BinaryPath(seq, HashPrefix(binary))]

(***************************************************************************)
(* DataResource and save_data.                                             *)
(***************************************************************************)
None == <<"None">>

\* DataResource.validate_for_save: TRUE when it raises.  An empty text or an
\* empty payload is falsy.
Falsy(v) == v = None \/ v = <<>>

ValidateRaises(ty, text, binary) ==
    \/ IsText(ty) /\ Falsy(text)
    \/ IsBinary(ty) /\ Falsy(binary)
    \/ ~Falsy(text) /\ ~Falsy(binary)

\* The whole store: the text files, the binary directories and the clock.
Store(F, D, now) == [files |-> F, dirs |-> D, now |-> now]

\* save_data, run without interruption.  raised: the exception that leaves
\* it, "none" when it returns.
SaveData(store, ty, name, text, binary) ==
    IF ValidateRaises(ty, text, binary)
    THEN [store |-> store, raised |-> "ValueError", dup |-> FALSE,
          item |-> None]
    ELSE IF IsText(ty)
    THEN LET Saved(r) ==
                 [store |-> Store(r.st.files, store.dirs, r.st.now),
                  raised |-> "none", dup |-> r.dup, item |-> r.saved]
         IN Saved(SaveText(St(store.files, store.now), name, text))
    ELSE LET Saved(r) ==
                 [store |-> Store(store.files,
                                  [store.dirs EXCEPT ![name] = r.dir],
                                  store.now),
                  raised |-> "none", dup |-> r.dup, item |-> r.path]
         IN Saved(SaveBinary(store.dirs[name], name, binary))

\* The items a dataset holds: the lines of its file, or the files of its
\* directory other than the index.
TextItems(F, name) == LoadJsonList(F, TextDataFile(name))
BinaryItems(D, name) == {BinaryPath(f.seq, f.h8) : f \in D[name].files}

ItemCount(store, ty, name) ==
    IF IsText(ty) THEN Len(TextItems(store.files, name))
    ELSE Cardinality(BinaryItems(store.dirs, name))

\* _get_text: the items random.choice draws from, or raised
GetText(F, name) ==
    LET jsonFile == TextDataFile(name)
    IN IF ~Exists(F, jsonFile) \/ F[jsonFile].kind # "list"
          \/ F[jsonFile].items = <<>>
       THEN [raised |-> "LocalDataError", items |-> {}]
       ELSE [raised |-> "none", items |-> Range(F[jsonFile].items)]

\* _get_binary
GetBinary(D, name) ==
    LET files == ListBinaryFiles(D[name], name)
    IN IF ~D[name].exists \/ files = {}
       THEN [raised |-> "LocalDataError", items |-> {}]
       ELSE [raised |-> "none",
             items |-> {BinaryPath(f.seq, f.h8) : f \in files}]

\* get_random_data: the items one of which is returned, or raised
GetRandomData(store, ty, name) ==
    IF IsText(ty) THEN GetText(store.files, name)
    ELSE GetBinary(store.dirs, name)

(***************************************************************************)
(* Fetch client (RemoteDataService._request, get_data) as far as the       *)
(* orchestrator sees it.  A response is what the server and the network    *)
(* do; biz says whether the body passes the content checks of is_valid     *)
(* (JSON code and error fields, HTML error phrases), url whether the text  *)
(* holds an absolute URL.                                                  *)
(***************************************************************************)
Response(net, status, ctype, text, binary, biz, url) ==
    [net |-> net, status |-> status, ctype |-> ctype, text |-> text,
     binary |-> binary, biz |-> biz, url |-> url]

Responses ==
    { Response("error", 0, "", None, None, FALSE, FALSE),
      Response("ok", 404, "text", <<"b">>, None, TRUE, FALSE),
      Response("ok", 304, "text", <<"b">>, None, TRUE, FALSE),
      Response("ok", 200, "text", <<"b">>, None, TRUE, FALSE),
      Response("ok", 200, "json", <<"a", "LF">>, None, TRUE, FALSE),
      Response("ok", 200, "json", <<"b">>, None, FALSE, FALSE),
      Response("ok", 200, "text", <<"LF">>, None, TRUE, FALSE),
      Response("ok", 200, "text", <<"b">>, None, TRUE, TRUE),
      Response("ok", 200, "other", None, <<"h1", "p">>, TRUE, FALSE),
      Response("ok", 200, "other", None, <<>>, TRUE, FALSE) }

\* what the download of a URL found in the text answers
FollowResponses ==
    { Response("error", 0, "", None, None, FALSE, FALSE),
      Response("ok", 200, "text", <<"b">>, None, TRUE, FALSE),
      Response("ok", 200, "other", None, <<"h2", "r">>, TRUE, FALSE),
      Response("ok", 200, "other", None, <<>>, TRUE, FALSE) }

\* get_data downloads only when the text holds a URL
FollowsOf(resp) ==
    IF resp.url THEN FollowResponses
    ELSE {Response("error", 0, "", None, None, FALSE, FALSE)}

Whitespace == {"CR", "LF", " "}

\* str.strip
RECURSIVE LStrip(_)
LStrip(t) ==
    IF t # <<>> /\ Head(t) \in Whitespace THEN LStrip(Tail(t)) ELSE t

RECURSIVE RStrip(_)
RStrip(t) ==
    IF t # <<>> /\ t[Len(t)] \in Whitespace
    THEN RStrip(SubSeq(t, 1, Len(t) - 1)) ELSE t

Strip(t) == RStrip(LStrip(t))

RequestResult(error, status, rawText, rawContent, biz, url) ==
    [error |-> error, status |-> status, rawText |-> rawText,
     rawContent |-> rawContent, biz |-> biz, url |-> url]

\* RemoteDataService._request: every failure ends in result.error
Request(resp) ==
    IF resp.net = "error" \/ resp.status >= 400
    THEN RequestResult(TRUE, 0, None, None, FALSE, FALSE)
    ELSE IF resp.ctype = "json"
    THEN RequestResult(FALSE, resp.status, resp.text, None, resp.biz, resp.url)
    ELSE IF resp.ctype = "text"
    THEN RequestResult(FALSE, resp.status, Strip(resp.text), None, resp.biz,
                       resp.url)
    ELSE RequestResult(FALSE, resp.status, None, resp.binary, resp.biz, FALSE)

ResultOk(r) == ~r.error
ResultIsBinary(r) == r.rawContent # None

\* RequestResult.is_valid, its content checks taken from biz
IsValid(r) ==
    /\ ResultOk(r)
    /\ r.status >= 200 /\ r.status < 300
    /\ IF ResultIsBinary(r) THEN r.rawContent # <<>>
       ELSE /\ ~Falsy(r.rawText)
            /\ Strip(r.rawText) # <<>>
            /\ r.biz

\* RemoteDataService.get_data
GetData(resp, follow) ==
    LET Got(result, downloaded) ==
            IF ~ResultOk(result) THEN result
            ELSE IF result.url /\ ResultIsBinary(downloaded) THEN downloaded
            ELSE IF ~IsValid(result) THEN [result EXCEPT !.error = TRUE]
            ELSE result
    IN Got(Request(resp), Request(follow))

(***************************************************************************)
(* Acquisition orchestrator (DataService.fetch).                           *)
(***************************************************************************)
ExceptionKinds == {"RuntimeError", "ValueError", "OSError", "LocalDataError"}

\* handlers that catch the client's RuntimeError only
C10_CatchesRuntimeOnly(exc) == exc = "RuntimeError"

\* "except Exception": the exceptions the handlers of fetch catch
Catches(exc) == exc \in ExceptionKinds

\* The remote half of fetch: get_data, then save_data.  ioFail: the file
\* system refuses the write (the save raises OSError before it wrote).
RemotePath(store, ty, name, resp, follow, ioFail) ==
    LET Save(saved) ==
            IF saved.raised = "none" /\ ioFail
            THEN [store |-> store, raised |-> "OSError", dup |-> FALSE,
                  item |-> None]
            ELSE saved
        Got(result) ==
            IF ~ResultOk(result)
            THEN [store |-> store, raised |-> "RuntimeError", dup |-> FALSE,
                  item |-> None]
            ELSE Save(SaveData(store, ty, name, result.rawText,
                               result.rawContent))
    IN Got(GetData(resp, follow))

\* DataService.fetch.  ret: "remote" (the saved resource), "local" (a cached
\* item, any of items), "none" (None); raised: the exception that leaves it.
Fetch(store, ty, name, resp, follow, ioFail, useLocal) ==
    LET Out(remote, local, ret, raised, items, st) ==
            [ret |-> ret, raised |-> raised, items |-> items, store |-> st,
             remoteRaised |-> remote.raised, localRaised |-> local.raised]
        Run(remote, local) ==
            IF remote.raised = "none"
            THEN Out(remote, local, "remote", "none", {remote.item},
                     remote.store)
            ELSE IF ~Catches(remote.raised)
            THEN Out(remote, local, "raised", remote.raised, {}, store)
            ELSE IF ~useLocal
            THEN Out(remote, local, "none", "none", {}, store)
            ELSE IF local.raised = "none"
            THEN Out(remote, local, "local", "none", local.items, store)
            ELSE IF ~Catches(local.raised)
            THEN Out(remote, local, "raised", local.raised, {}, store)
            ELSE Out(remote, local, "none", "none", {}, store)
    IN Run(RemotePath(store, ty, name, resp, follow, ioFail),
           GetRandomData(store, ty, name))

(***************************************************************************)
(* The content store as a state machine: save_data and fetch run one at a  *)
(* time, and an outside writer appends lines to a text dataset's file      *)
(* without touching its index.  One behaviour works on one dataset.        *)
(***************************************************************************)
TheStore == Store(textFiles, binDirs, clock)

LastInit ==
    [op |-> "init", payload |-> None, raised |-> "none", dup |-> FALSE,
     ret |-> "", item |-> None, before |-> 0, stale |-> FALSE,
     net |-> "", useLocal |-> FALSE, remoteRaised |-> "none",
     localRaised |-> "none", repeat |-> FALSE, afterOob |-> FALSE,
     heldRaw |-> FALSE, heldNorm |-> FALSE, saved |-> {}, steps |-> 0]

\* the index of a text dataset describes its file as it is now
IndexCurrent(F, name) ==
    LET idx == F[TextIndexFile(name)]
        sig == TextFileSignature(F, TextDataFile(name))
    IN idx.kind = "index" /\ idx.smtime = sig[1] /\ idx.ssize = sig[2]

DatasetKeys ==
    {<<"text", n>> : n \in TextNames} \cup {<<"image", n>> : n \in BinNames}

PayloadsOf(ty) == IF IsText(ty) THEN Texts ELSE Payloads

\* LocalDataService.__init__: the directories exist and are empty
InitFiles ==
    /\ textFiles = [p \in TextPaths |-> NoFile]
    /\ binDirs = [n \in BinNames |-> NoDir]
    /\ clock = 0

InitStore ==
    /\ InitFiles
    /\ storeKey \in DatasetKeys
    /\ storeLast = LastInit

\* the store of a behaviour that runs no single store operation
InitStoreIdle ==
    /\ InitFiles
    /\ storeKey = <<"text", <<"x">>>>
    /\ storeLast = LastInit

SetStore(store) ==
    /\ textFiles' = store.files
    /\ binDirs' = store.dirs
    /\ clock' = store.now
    /\ UNCHANGED storeKey

\* save_data(DataResource(ty, name, payload))
StoreSaveData(ty, name, payload) ==
    \E r \in {SaveData(TheStore, ty, name,
                       IF IsText(ty) THEN payload ELSE None,
                       IF IsText(ty) THEN None ELSE payload)} :
       /\ clock < MaxClock
       /\ ItemCount(r.store, ty, name) <= MaxLines
       /\ SetStore(r.store)
       /\ storeLast' =
              [LastInit EXCEPT
                  !.op = "save", !.payload = payload, !.raised = r.raised,
                  !.dup = r.dup, !.item = r.item,
                  !.before = ItemCount(TheStore, ty, name),
                  !.stale = /\ IsText(ty)
                            /\ textFiles[TextDataFile(name)].kind = "list"
                            /\ ~IndexCurrent(textFiles, name),
                  !.repeat = payload \in storeLast.saved,
                  !.saved = IF r.raised = "none"
                            THEN storeLast.saved \cup {payload}
                            ELSE storeLast.saved,
                  !.afterOob = (storeLast.op = "oob"),
                  !.heldRaw = /\ IsText(ty)
                              /\ payload \in Range(TextItems(textFiles, name)),
                  !.heldNorm = /\ IsText(ty)
                               /\ NormalizeText(payload)
                                      \in Range(TextItems(textFiles, name))]

\* An outside writer appends a line to the file of a text dataset and
\* leaves the index alone.
StoreOobAppend(name, line) ==
    LET path == TextDataFile(name)
        st == WriteJson(St(textFiles, clock), path,
                        ListFile(Append(textFiles[path].items, line), 0))
    IN /\ clock < MaxClock
       /\ textFiles[path].kind = "list"
       /\ Len(textFiles[path].items) < MaxLines
       /\ textFiles' = st.files
       /\ clock' = st.now
       /\ UNCHANGED <<binDirs, storeKey>>
       /\ storeLast' =
              [LastInit EXCEPT !.op = "oob", !.payload = line,
                               !.before = Len(textFiles[path].items),
                               !.saved = storeLast.saved]

\* fetch(entry, use_local) for an entry of type ty named name
StoreFetch(ty, name, resp, follow, ioFail, useLocal) ==
    \E r \in {Fetch(TheStore, ty, name, resp, follow, ioFail, useLocal)} :
       /\ clock < MaxClock
       /\ ItemCount(r.store, ty, name) <= MaxLines
       /\ SetStore(r.store)
       /\ \E item \in (IF r.items = {} THEN {None} ELSE r.items) :
              storeLast' =
                  [LastInit EXCEPT
                      !.op = "fetch", !.raised = r.raised, !.ret = r.ret,
                      !.item = item, !.net = resp.net,
                      !.useLocal = useLocal,
                      !.before = ItemCount(TheStore, ty, name),
                      !.remoteRaised = r.remoteRaised,
                      !.localRaised = r.localRaised,
                      !.saved = storeLast.saved]

\* what a step of the content store leaves alone
StoreFrame ==
    UNCHANGED <<concVars, regVars, batchVars, schedVars, siteVars, ctlVars, pureVars>>

NextStore ==
    \/ \E payload \in PayloadsOf(storeKey[1]) :
          StoreSaveData(storeKey[1], storeKey[2], payload) /\ StoreFrame
    \/ \E line \in Texts :
          IsText(storeKey[1]) /\ StoreOobAppend(storeKey[2], line)
                              /\ StoreFrame
    \/ \E resp \in Responses, ioFail \in BOOLEAN, useLocal \in BOOLEAN :
        \E follow \in FollowsOf(resp) :
          StoreFetch(storeKey[1], storeKey[2], resp, follow, ioFail, useLocal)
              /\ StoreFrame

\* the items a dataset holds, whatever the sampling code lists
DatasetItems(store, ty, name) ==
    IF IsText(ty) THEN Range(TextItems(store.files, name))
    ELSE BinaryItems(store.dirs, name)

\* C1: once save_data of a payload has completed, a second save_data of the
\* same payload to the same dataset returns is_duplicate=true and leaves the
\* number of stored items (text lines, binary files) unchanged.
C1_SecondSaveIsDuplicate ==
    (storeLast.op = "save" /\ storeLast.repeat)
        => /\ storeLast.raised = "none"
           /\ storeLast.dup
           /\ ItemCount(TheStore, storeKey[1], storeKey[2]) = storeLast.before

\* a text with a carriage return was saved a second time, after other
\* texts had been stored
C1_Witness ==
    /\ storeLast.op = "save" /\ storeLast.repeat /\ storeLast.dup
    /\ storeKey[1] = "text"
    /\ storeLast.payload = <<"a", "CR", "LF">>
    /\ storeLast.before >= 2

\* a binary payload was saved a second time, after another payload with
\* the same hash prefix had been stored
C1_WitnessBinary ==
    /\ storeLast.op = "save" /\ storeLast.repeat /\ storeLast.dup
    /\ storeKey[1] = "image"
    /\ {<<"h1", "p">>, <<"h1", "q">>} \subseteq storeLast.saved

\* C3: fetch with use_local=True, when the remote call ends in a network
\* error, returns an item of the dataset (entry.data_type, entry.name) if
\* that dataset exists and is non-empty, and None if it is absent or empty.
C3_FallbackReturnsCachedItem ==
    (storeLast.op = "fetch" /\ storeLast.useLocal /\ storeLast.net = "error")
        => LET items == DatasetItems(TheStore, storeKey[1], storeKey[2])
           IN IF items # {}
              THEN storeLast.ret = "local" /\ storeLast.item \in items
              ELSE storeLast.ret = "none"

\* C8 as stated: after lines were appended to a text dataset's file behind
\* the index (the signature differs), saving a text equal to one of the
\* file's lines returns is_duplicate=true, appends nothing, and the index is
\* re-persisted with the current signature.
C8_SavedLineIsDuplicate ==
    (storeLast.op = "save" /\ storeLast.stale /\ storeLast.heldRaw)
        => /\ storeLast.dup
           /\ ItemCount(TheStore, storeKey[1], storeKey[2]) = storeLast.before
           /\ IndexCurrent(textFiles, storeKey[2])

\* C8 as amended: the same for a text whose stored form (every carriage
\* return replaced by a line feed) equals one of the file's lines; the index
\* is re-persisted with the current signature after every save on a stale
\* index.
C8_SavedNormalizedLineIsDuplicate ==
    (storeLast.op = "save" /\ storeLast.stale)
        => /\ IndexCurrent(textFiles, storeKey[2])
           /\ storeLast.heldNorm
                  => /\ storeLast.dup
                     /\ ItemCount(TheStore, storeKey[1], storeKey[2])
                            = storeLast.before

\* a save right after an outside append found the appended line
C8_Witness ==
    /\ storeLast.op = "save" /\ storeLast.stale /\ storeLast.afterOob
    /\ storeLast.heldNorm /\ storeLast.dup
    /\ IndexCurrent(textFiles, storeKey[2])

\* C10: fetch never raises; it returns a DataResource or None, and None only
\* when the remote path failed and the local fallback failed or was disabled.
C10_FetchNeverRaises ==
    storeLast.op = "fetch"
        => /\ storeLast.raised = "none"
           /\ storeLast.ret \in {"remote", "local", "none"}
           /\ storeLast.ret # "none" => storeLast.item # None
           /\ storeLast.ret = "none"
                  => /\ storeLast.remoteRaised # "none"
                     /\ ~storeLast.useLocal \/ storeLast.localRaised # "none"

\* a response of the wrong shape and an empty cache end in None
C10_Witness ==
    /\ storeLast.op = "fetch" /\ storeLast.ret = "none"
    /\ storeLast.remoteRaised = "ValueError"
    /\ storeLast.useLocal /\ storeLast.localRaised = "LocalDataError"

\* C29: after any sequence of save_data calls on a binary dataset that
\* started empty, the index maps the full hash of every saved payload to an
\* existing file holding exactly that payload, no two files hold the same
\* content, every file is named by a sequence number and the hash prefix of
\* its content, and the first file written has sequence number 0.
C29_BinaryIndexSound ==
    IsBinary(storeKey[1])
        => LET dir == binDirs[storeKey[2]]
           IN /\ \A p \in storeLast.saved :
                    \E e \in dir.index :
                       /\ e.hash = HashBinary(p)
                       /\ \E f \in dir.files :
                             f.seq = e.seq /\ f.h8 = e.h8 /\ f.data = p
              /\ \A e1, e2 \in dir.index : e1.hash = e2.hash => e1 = e2
              /\ \A f, g \in dir.files : f.data = g.data => f = g
              /\ \A f \in dir.files :
                    f.seq \in Nat /\ f.h8 = HashPrefix(f.data)
              /\ dir.files # {} => \E f \in dir.files : f.seq = 0

\* all payloads, two of them with the same hash prefix, were saved to a
\* binary dataset, the last save being a repeated one: three files
C29_Witness ==
    /\ IsBinary(storeKey[1])
    /\ storeLast.op = "save" /\ storeLast.dup
    /\ storeLast.saved = Payloads
    /\ {f.seq : f \in binDirs[storeKey[2]].files} = {0, 1, 2}

\* a text with every carriage return that a line feed follows dropped
RECURSIVE CrlfToLf(_)
CrlfToLf(t) ==
    IF t = <<>> THEN <<>>
    ELSE IF Len(t) >= 2 /\ t[1] = "CR" /\ t[2] = "LF"
    THEN <<"LF">> \o CrlfToLf(Tail(Tail(t)))
    ELSE <<Head(t)>> \o CrlfToLf(Tail(t))

\* C28: save_data hashes the text with every CRLF sequence normalized to a
\* single LF, so once a text has been saved to a dataset, saving a text that
\* differs from it only in CRLF against LF line endings returns
\* is_duplicate=true and stores no further line.
C28_CrlfSaveIsDuplicate ==
    (/\ storeLast.op = "save" /\ IsText(storeKey[1])
     /\ storeLast.raised = "none"
     /\ \E t \in storeLast.saved \ {storeLast.payload} :
            CrlfToLf(t) = CrlfToLf(storeLast.payload))
        => /\ storeLast.dup
           /\ ItemCount(TheStore, storeKey[1], storeKey[2]) = storeLast.before

(***************************************************************************)
(* The delete operations of the admin surface, and the content store as a  *)
(* state machine over all datasets of one type: save_data,                 *)
(* delete_items_multi_batch with one target, delete_collections_batch with *)
(* one target and get_random_data, on any dataset, run one at a time.      *)
(***************************************************************************)
\* the lines of a list that the pops of _delete_items_batch_one leave: those
\* whose index, counted from i, is not in idxs
RECURSIVE DropAt(_, _, _)
DropAt(items, idxs, i) ==
    IF items = <<>> THEN <<>>
    ELSE (IF i \in idxs THEN <<>> ELSE <<Head(items)>>)
             \o DropAt(Tail(items), idxs, i + 1)

\* _delete_items_batch_one, text branch: idxs are the indices of the items
DeleteItemsText(store, name, idxs) ==
    LET jsonFile == TextDataFile(name)
        indexFile == TextIndexFile(name)
        datasetItems == LoadJsonList(store.files, jsonFile)
        kept == DropAt(datasetItems, idxs, 0)
        Written(st) ==
            SaveTextHashes(st, jsonFile, indexFile,
                           {HashText(kept[i]) : i \in 1..Len(kept)})
        Done(st) == [store |-> Store(st.files, store.dirs, st.now),
                     raised |-> "none",
                     deleted |-> Len(datasetItems) - Len(kept)]
    IN IF \/ idxs = {}
          \/ ~Exists(store.files, jsonFile)
          \/ Len(kept) = Len(datasetItems)
       THEN [store |-> store, raised |-> "LocalDataError", deleted |-> 0]
       ELSE Done(Written(WriteJson(St(store.files, store.now), jsonFile,
                                   ListFile(kept, 0))))

\* the path of the index file of a binary dataset, as a value
IndexPath == <<"index">>

\* the files of sel are unlinked and nothing else is done
C31_DeleteItemsUnlinkOnly(store, name, sel) ==
    LET files == {f \in store.dirs[name].files :
                     BinaryPath(f.seq, f.h8) \notin sel}
    IN [store |-> Store(store.files,
                        [store.dirs EXCEPT ![name].files = files],
                        store.now),
        raised |-> "none",
        deleted |-> Cardinality(store.dirs[name].files \ files),
        remain |-> Cardinality(files)]

\* _delete_items_batch_one, binary branch: sel are the paths of the items
DeleteItemsBinary(store, name, sel) ==
    LET dir == store.dirs[name]
        targets ==
            {t \in sel : \/ t = IndexPath /\ dir.hasIndex
                         \/ \E f \in dir.files : BinaryPath(f.seq, f.h8) = t}
        files == {f \in dir.files : BinaryPath(f.seq, f.h8) \notin targets}
        indexExists == dir.hasIndex /\ IndexPath \notin targets
        pruned == {e \in dir.index : BinaryPath(e.seq, e.h8) \notin targets}
        hasIndex == indexExists /\ (pruned = dir.index \/ pruned # {})
        unlinked == [exists |-> TRUE, files |-> files, hasIndex |-> hasIndex,
                     index |-> IF hasIndex THEN pruned ELSE {}]
        Result(d, raised) ==
            [store |-> Store(store.files, [store.dirs EXCEPT ![name] = d],
                             store.now),
             raised |-> raised, deleted |-> Cardinality(targets),
             remain |-> IF d.exists
                        THEN Cardinality(ListBinaryFiles(d, name)) ELSE 0]
    IN IF sel = {} \/ ~dir.exists \/ targets = {}
       THEN [store |-> store, raised |-> "LocalDataError", deleted |-> 0,
             remain |-> 0]
       ELSE IF ListBinaryFiles(unlinked, name) # {}
       THEN Result(unlinked, "none")
       ELSE IF files = {}
       THEN Result(NoDir, "none")
       ELSE Result([unlinked EXCEPT !.hasIndex = FALSE, !.index = {}],
                   "OSError")

\* _delete_items_batch_one
DeleteItems(store, ty, name, sel) ==
    IF IsText(ty) THEN DeleteItemsText(store, name, sel)
    ELSE DeleteItemsBinary(store, name, sel)

\* _delete_collection_one
DeleteCollection(store, ty, name) ==
    IF IsText(ty)
    THEN IF ~Exists(store.files, TextDataFile(name))
         THEN [store |-> store, raised |-> "LocalDataError", deleted |-> 0]
         ELSE [store |-> Store([store.files EXCEPT
                                   ![TextDataFile(name)] = NoFile,
                                   ![TextIndexFile(name)] = NoFile],
                               store.dirs, store.now),
               raised |-> "none", deleted |-> 1]
    ELSE IF ~store.dirs[name].exists
         THEN [store |-> store, raised |-> "LocalDataError", deleted |-> 0]
         ELSE [store |-> Store(store.files,
                               [store.dirs EXCEPT ![name] = NoDir],
                               store.now),
               raised |-> "none",
               deleted |-> Cardinality(
                               ListBinaryFiles(store.dirs[name], name))]

\* the selectors of a delete_items call on a dataset: up to two indices of a
\* text dataset; up to two paths of a binary dataset's directory, its index
\* file among them
TextSelectors == {{0}, {1}, {0, 2}, {MaxLines}}

BinarySelectors(D, name) ==
    {sel \in SUBSET (BinaryItems(D, name) \cup {IndexPath}) :
        Cardinality(sel) \in {1, 2}}

SelectorsOf(store, ty, name) ==
    IF IsText(ty) THEN TextSelectors ELSE BinarySelectors(store.dirs, name)

DatasetNamesOf(ty) == IF IsText(ty) THEN TextNames ELSE BinNames

SetData(store, ty, name) ==
    /\ textFiles' = store.files
    /\ binDirs' = store.dirs
    /\ clock' = store.now
    /\ storeKey' = <<ty, name>>

\* a dataset holds the content save_data stores for a payload
Holds(store, ty, name, payload) ==
    IF IsText(ty)
    THEN NormalizeText(payload) \in Range(TextItems(store.files, name))
    ELSE \E f \in store.dirs[name].files : f.data = payload

\* save_data(DataResource(ty, name, payload))
DataSaveData(ty, name, payload) ==
    /\ storeLast.steps < MaxDataOps
    /\ \E r \in {SaveData(TheStore, ty, name,
                          IF IsText(ty) THEN payload ELSE None,
                          IF IsText(ty) THEN None ELSE payload)} :
          /\ ItemCount(r.store, ty, name) <= MaxLines
          /\ SetData(r.store, ty, name)
          /\ storeLast' =
                 [LastInit EXCEPT
                     !.op = "save", !.payload = payload,
                     !.raised = r.raised, !.dup = r.dup, !.item = r.item,
                     !.before = ItemCount(TheStore, ty, name),
                     !.steps = storeLast.steps + 1,
                     !.heldNorm = Holds(TheStore, ty, name, payload)]

\* delete_items_multi_batch([{type: ty, name: name, items: sel}])
DataDeleteItems(ty, name, sel) ==
    /\ storeLast.steps < MaxDataOps
    /\ \E r \in {DeleteItems(TheStore, ty, name, sel)} :
          /\ SetData(r.store, ty, name)
          /\ storeLast' =
                 [LastInit EXCEPT
                     !.op = "deleteItems", !.payload = sel,
                     !.raised = r.raised,
                     !.before = ItemCount(TheStore, ty, name),
                     !.steps = storeLast.steps + 1]

\* delete_collections_batch([{type: ty, name: name}])
DataDeleteCollection(ty, name) ==
    /\ storeLast.steps < MaxDataOps
    /\ \E r \in {DeleteCollection(TheStore, ty, name)} :
          /\ SetData(r.store, ty, name)
          /\ storeLast' =
                 [LastInit EXCEPT
                     !.op = "deleteCollection", !.raised = r.raised,
                     !.before = ItemCount(TheStore, ty, name),
                     !.steps = storeLast.steps + 1]

\* get_random_data(ty, name)
DataGetRandomData(ty, name) ==
    /\ storeLast.steps < MaxDataOps
    /\ \E r \in {GetRandomData(TheStore, ty, name)} :
          /\ SetData(TheStore, ty, name)
          /\ \E item \in (IF r.items = {} THEN {None} ELSE r.items) :
                storeLast' =
                    [LastInit EXCEPT
                        !.op = "sample", !.raised = r.raised, !.item = item,
                        !.before = ItemCount(TheStore, ty, name),
                        !.steps = storeLast.steps + 1]

NextData ==
    \/ \E name \in DatasetNamesOf(storeKey[1]), payload \in PayloadsOf(storeKey[1]) :
          DataSaveData(storeKey[1], name, payload) /\ StoreFrame
    \/ \E name \in DatasetNamesOf(storeKey[1]) :
        \E sel \in SelectorsOf(TheStore, storeKey[1], name) :
          DataDeleteItems(storeKey[1], name, sel) /\ StoreFrame
    \/ \E name \in DatasetNamesOf(storeKey[1]) :
          DataDeleteCollection(storeKey[1], name) /\ StoreFrame
    \/ \E name \in DatasetNamesOf(storeKey[1]) :
          DataGetRandomData(storeKey[1], name) /\ StoreFrame

\* the paths of the files of a directory
PathsOf(dir) == {BinaryPath(f.seq, f.h8) : f \in dir.files}

\* C36: a save of a binary payload overwrites no file: every file the
\* directory held before the save is there after it under its name and
\* with its content, no name stands for two contents, and a save that
\* stores the payload writes it under a name that was not in use, the
\* first free one from the computed sequence number on.
C36_SaveBinaryKeepsFiles ==
    [][(storeLast'.op = "save" /\ storeLast'.steps = storeLast.steps + 1
           /\ IsBinary(storeKey'[1]))
          => LET old == binDirs[storeKey'[2]]
                 new == binDirs'[storeKey'[2]]
                 first == NextBinarySequence(old, storeKey'[2])
                 h8 == HashPrefix(storeLast'.payload)
             IN /\ old.files \subseteq new.files
                /\ Cardinality(PathsOf(new)) = Cardinality(new.files)
                /\ (storeLast'.raised = "none" /\ ~storeLast'.dup)
                      => \E seq \in first..(first + Cardinality(old.files)) :
                            /\ new.files = old.files \cup
                                   {[seq |-> seq, h8 |-> h8,
                                     data |-> storeLast'.payload]}
                            /\ BinaryPath(seq, h8) \notin PathsOf(old)
                            /\ \A below \in first..(seq - 1) :
                                  BinaryPath(below, h8) \in PathsOf(old)]_vars

\* the name computed for a payload was taken (the files of .x are not
\* listed, the sequence number starts at 0 again): the payload was stored
\* under the next number, beside the file that has the name
C36_Witness ==
    /\ storeLast.op = "save" /\ storeLast.raised = "none" /\ ~storeLast.dup
    /\ IsBinary(storeKey[1])
    /\ \E f, g \in binDirs[storeKey[2]].files :
          /\ f.seq = 0 /\ g.seq = 1 /\ f.h8 = g.h8
          /\ f.data # g.data
          /\ g.data = storeLast.payload

\* _get_binary: what the LocalDataError it raises says
GetBinaryError(D, name) ==
    IF ~D[name].exists THEN "folder not found"
    ELSE IF ListBinaryFiles(D[name], name) = {} THEN "folder empty"
    ELSE "none"

\* a delete_items call on a binary dataset that holds one file, with the
\* path of that file among the selected paths
DeleteLastFileStep ==
    /\ storeLast'.op = "deleteItems"
    /\ storeLast'.steps = storeLast.steps + 1
    /\ IsBinary(storeKey'[1])
    /\ Cardinality(binDirs[storeKey'[2]].files) = 1
    /\ \A f \in binDirs[storeKey'[2]].files :
           BinaryPath(f.seq, f.h8) \in storeLast'.payload

\* C31: deleting the last remaining file of a binary dataset through
\* delete_items removes the dataset directory and its index file and
\* reports remain=0; afterwards sampling the dataset fails as not found and
\* the next save to it creates the dataset anew with is_duplicate=false.
C31_LastFileDeleteRemovesDataset ==
    [][DeleteLastFileStep
       => LET ty == storeKey'[1]
              name == storeKey'[2]
          IN /\ storeLast'.raised = "none"
             /\ DeleteItems(TheStore, ty, name, storeLast'.payload).remain = 0
             /\ binDirs'[name] = NoDir
             /\ GetRandomData(TheStore', ty, name).raised = "LocalDataError"
             /\ GetBinaryError(binDirs', name) = "folder not found"
             /\ \A payload \in Payloads :
                    \E r \in {SaveData(TheStore', ty, name, None, payload)} :
                       /\ r.raised = "none"
                       /\ ~r.dup
                       /\ r.store.dirs[name].exists
                       /\ r.store.dirs[name].hasIndex
                       /\ {f.data : f \in r.store.dirs[name].files}
                              = {payload}]_vars

\* the only file of a binary dataset was deleted after the dataset had
\* held two files, and the directory is gone
C31_Witness ==
    /\ storeLast.op = "deleteItems"
    /\ storeLast.raised = "none"
    /\ IsBinary(storeKey[1])
    /\ storeLast.before = 1
    /\ storeLast.steps >= 4
    /\ binDirs[storeKey[2]] = NoDir

\* a delete_items call that returned is followed at once by a save_data to
\* the same dataset
SaveAfterDeleteStep ==
    /\ storeLast.op = "deleteItems" /\ storeLast.raised = "none"
    /\ storeLast'.op = "save" /\ storeLast'.raised = "none"
    /\ storeKey' = storeKey

\* C22: after delete_items on a dataset (text items by index, binary items
\* by path, any accepted selector), the hash index describes exactly the
\* remaining items: a later save of a content the dataset no longer holds
\* returns is_duplicate=false and stores it, and a later save of a content
\* the dataset still holds returns is_duplicate=true and stores nothing.
C22_IndexDescribesRemainingItems ==
    [][SaveAfterDeleteStep
       => /\ storeLast'.dup = storeLast'.heldNorm
          /\ Holds(TheStore', storeKey[1], storeKey[2], storeLast'.payload)
          /\ ItemCount(TheStore', storeKey[1], storeKey[2])
                 = storeLast'.before + (IF storeLast'.dup THEN 0 ELSE 1)]_vars

\* C23: get_random_data(data_type, name) returns an item stored in that
\* dataset at the time of the call, and fails with an error when the
\* dataset is absent and when it holds zero items.
C23_SampleReturnsStoredItem ==
    storeLast.op = "sample"
        => LET items == DatasetItems(TheStore, storeKey[1], storeKey[2])
           IN IF items = {}
              THEN storeLast.raised = "LocalDataError"
              ELSE storeLast.raised = "none" /\ storeLast.item \in items

\* what a dataset consists of: its stored items and its index (for a text
\* dataset the hash set and the signature its index file records, None when
\* there is no such file or it holds no index)
TextIndexOf(F, name) ==
    LET idx == F[TextIndexFile(name)]
    IN IF idx.kind = "index" THEN <<idx.hashes, idx.smtime, idx.ssize>>
       ELSE None

DatasetView(store, ty, name) ==
    IF IsText(ty)
    THEN <<TextItems(store.files, name), TextIndexOf(store.files, name)>>
    ELSE <<store.dirs[name].files, store.dirs[name].hasIndex,
           store.dirs[name].index>>

\* C30: save_data and the delete operations on a dataset leave the stored
\* items and the index of every other dataset unchanged, for all pairs of
\* distinct dataset names.
C30_OtherDatasetsUnchanged ==
    [][storeLast'.op \in {"save", "deleteItems", "deleteCollection"}
       => \A name \in DatasetNamesOf(storeKey'[1]) :
             name # storeKey'[2]
                 => DatasetView(TheStore', storeKey'[1], name)
                        = DatasetView(TheStore, storeKey'[1], name)]_vars

(***************************************************************************)
(* Concurrent save_data calls on one LocalDataService.  Each call is a     *)
(* task of the event loop: it looks its dataset's lock up, waits for it,   *)
(* and runs _save_text or _save_binary while holding it.  The steps of     *)
(* _save_text (load the items and the index; decide and write) are         *)
(* scheduled separately here, which allows every interleaving the event    *)
(* loop allows and more: what holds of these behaviours holds of the       *)
(* code's, and keeping the sections apart is left to the lock alone.       *)
(***************************************************************************)
Tasks == 1..MaxSavers
NoTask == 0

ConcKeys == {<<"text", <<"x">>>>, <<"image", <<"x">>>>}

ConcPayloadsOf(ty) ==
    IF IsText(ty) THEN {<<"a", "CR", "LF">>, <<"b">>}
    ELSE {<<"h1", "p">>, <<"h1", "q">>}

IdleSaver ==
    [pc |-> "idle", key |-> <<"text", <<"x">>>>, payload |-> None,
     items |-> <<>>, hashes |-> {}, dup |-> FALSE, contended |-> FALSE]

InitConc ==
    /\ datasetLocks = {}
    /\ lockHolder = [k \in ConcKeys |-> NoTask]
    /\ savers = [t \in Tasks |-> IdleSaver]

\* a lock that never keeps anybody out
C7_LockAlwaysFree(holder) == TRUE

\* asyncio.Lock: acquire goes through when nobody holds the lock
LockFree(holder) == holder = NoTask

\* save_data up to "async with lock": validate_for_save passes (the payload
\* is not empty), _get_dataset_lock returns the lock of the key and makes it
\* when the key has none
ConcSaveData(t, key, payload) ==
    /\ savers[t].pc = "idle"
    /\ IF t = 1 THEN TRUE ELSE savers[t - 1].pc # "idle"
    /\ ~ValidateRaises(key[1], IF IsText(key[1]) THEN payload ELSE None,
                       IF IsText(key[1]) THEN None ELSE payload)
    /\ datasetLocks' = datasetLocks \cup {key}
    /\ savers' = [savers EXCEPT
                     ![t] = [IdleSaver EXCEPT
                                !.pc = "waiting", !.key = key,
                                !.payload = payload,
                                !.contended = lockHolder[key] # NoTask]]
    /\ UNCHANGED <<lockHolder, textFiles, binDirs, clock>>

\* "async with lock": entered when the lock is free
ConcAcquire(t) ==
    /\ savers[t].pc = "waiting"
    /\ savers[t].key \in datasetLocks
    /\ LockFree(lockHolder[savers[t].key])
    /\ lockHolder' = [lockHolder EXCEPT ![savers[t].key] = t]
    /\ savers' = [savers EXCEPT ![t].pc = "locked"]
    /\ UNCHANGED <<datasetLocks, textFiles, binDirs, clock>>

\* _save_text up to the dedup decision
ConcLoad(t) ==
    LET loaded == SaveTextLoad(St(textFiles, clock), savers[t].key[2])
    IN /\ savers[t].pc = "locked"
       /\ IsText(savers[t].key[1])
       /\ textFiles' = loaded.st.files
       /\ clock' = loaded.st.now
       /\ savers' = [savers EXCEPT ![t].pc = "loaded",
                                   ![t].items = loaded.items,
                                   ![t].hashes = loaded.hashes]
       /\ UNCHANGED <<datasetLocks, lockHolder, binDirs>>

\* the lock is handed back when the "async with" block is left
Release(t) ==
    lockHolder' = [lockHolder EXCEPT
                      ![savers[t].key] = IF @ = t THEN NoTask ELSE @]

\* _save_text from the dedup decision on, and the return of save_data
ConcStore(t) ==
    LET stored == SaveTextStore(St(textFiles, clock), savers[t].key[2],
                                savers[t].payload, savers[t].items,
                                savers[t].hashes)
    IN /\ savers[t].pc = "loaded"
       /\ textFiles' = stored.st.files
       /\ clock' = stored.st.now
       /\ savers' = [savers EXCEPT ![t].pc = "done", ![t].dup = stored.dup]
       /\ Release(t)
       /\ UNCHANGED <<datasetLocks, binDirs>>

\* _save_binary and the return of save_data
ConcSaveBinary(t) ==
    LET name == savers[t].key[2]
        r == SaveBinary(binDirs[name], name, savers[t].payload)
    IN /\ savers[t].pc = "locked"
       /\ IsBinary(savers[t].key[1])
       /\ binDirs' = [binDirs EXCEPT ![name] = r.dir]
       /\ savers' = [savers EXCEPT ![t].pc = "done", ![t].dup = r.dup]
       /\ Release(t)
       /\ UNCHANGED <<datasetLocks, textFiles, clock>>

\* what a step of a save leaves alone
ConcFrame ==
    UNCHANGED <<storeKey, storeLast, regVars, batchVars, schedVars, siteVars, ctlVars,
                pureVars>>

NextConc ==
    \/ \E t \in Tasks, key \in ConcKeys :
          \E payload \in ConcPayloadsOf(key[1]) :
              ConcSaveData(t, key, payload) /\ ConcFrame
    \/ \E t \in Tasks : ConcAcquire(t) /\ ConcFrame
    \/ \E t \in Tasks : ConcLoad(t) /\ ConcFrame
    \/ \E t \in Tasks : ConcStore(t) /\ ConcFrame
    \/ \E t \in Tasks : ConcSaveBinary(t) /\ ConcFrame

\* how many times the dataset of key holds the payload
StoredCopies(key, payload) ==
    IF IsText(key[1])
    THEN LET items == TextItems(textFiles, key[2])
         IN Cardinality({i \in 1..Len(items) :
                            items[i] = NormalizeText(payload)})
    ELSE Cardinality({f \in binDirs[key[2]].files : f.data = payload})

\* C7: save_data calls running concurrently on one dataset never have their
\* load-index / append / write-index sections interleaved, and the result
\* is that of some sequential order: a content is stored at most once, and
\* of the finished saves of one content exactly one returned
\* is_duplicate=false.
C7_SavesSerialized ==
    /\ \A key \in ConcKeys :
           Cardinality({t \in Tasks : /\ savers[t].key = key
                                      /\ savers[t].pc \in {"locked", "loaded"}})
               <= 1
    /\ \A key \in ConcKeys : \A payload \in ConcPayloadsOf(key[1]) :
           LET finished == {t \in Tasks : /\ savers[t].pc = "done"
                                          /\ savers[t].key = key
                                          /\ savers[t].payload = payload}
           IN /\ StoredCopies(key, payload) <= 1
              /\ finished # {}
                     => /\ StoredCopies(key, payload) = 1
                        /\ Cardinality({t \in finished : ~savers[t].dup}) = 1

\* three saves of one text, two of them called while the first held the
\* lock, have all returned
C7_Witness ==
    /\ \A t \in Tasks : /\ savers[t].pc = "done"
                         /\ savers[t].key = <<"text", <<"x">>>>
                         /\ savers[t].payload = <<"a", "CR", "LF">>
    /\ Cardinality({t \in Tasks : savers[t].contended}) >= 2

(***************************************************************************)
(* Entries (APIEntry).  An entry is the record of its fields; a keyword is *)
(* a pattern, a literal sequence of tokens that matches a text when it     *)
(* occurs in it, or the pattern "(" that re.compile rejects.               *)
(***************************************************************************)
BadPattern == <<"(">>

\* APIEntry._normalize_data, on typed fields: no keyword means [name]
NormalizeData(data) ==
    [data EXCEPT !.keywords = IF @ # <<>> THEN @
                              ELSE IF data.name # <<>> THEN <<data.name>>
                              ELSE <<>>]

\* APIEntry.__init__
APIEntry(data) == NormalizeData(data)

\* APIEntry.to_dict: the row of an entry has the entry's fields
ToDict(entry) ==
    IF "params" \in DOMAIN entry
    THEN [name |-> entry.name, url |-> entry.url, enabled |-> entry.enabled,
          scope |-> entry.scope, keywords |-> entry.keywords,
          cron |-> entry.cron, valid |-> entry.valid,
          params |-> entry.params, site |-> entry.site]
    ELSE IF "site" \in DOMAIN entry
    THEN [name |-> entry.name, url |-> entry.url, enabled |-> entry.enabled,
          scope |-> entry.scope, keywords |-> entry.keywords,
          cron |-> entry.cron, valid |-> entry.valid, site |-> entry.site]
    ELSE [name |-> entry.name, url |-> entry.url, enabled |-> entry.enabled,
          scope |-> entry.scope, keywords |-> entry.keywords,
          cron |-> entry.cron, valid |-> entry.valid]

\* get_base_url: scheme and host of the url
GetBaseUrl(entry) == entry.url[1]

\* _compile_patterns: the patterns re.compile accepts
CompilePatterns(entry) ==
    SelectSeq(entry.keywords, LAMBDA k : k # BadPattern)

\* _match_keywords
MatchKeywords(entry, text) ==
    \E i \in 1..Len(CompilePatterns(entry)) :
        Occurs(CompilePatterns(entry)[i], text)

\* _allow_scope
AllowScope(entry, caller) ==
    \/ entry.scope = <<>>
    \/ \E i \in 1..Len(entry.scope) :
           \/ entry.scope[i] = "admin" /\ caller.isAdmin
           \/ entry.scope[i] = caller.userId
           \/ entry.scope[i] = caller.groupId
           \/ entry.scope[i] = caller.sessionId

\* a check_activate without the validity gate
C4_CheckActivateNoValidGate(entry, text, caller) ==
    /\ entry.enabled
    /\ AllowScope(entry, caller)
    /\ MatchKeywords(entry, text)

\* check_activate
CheckActivate(entry, text, caller) ==
    /\ entry.enabled
    /\ entry.valid
    /\ AllowScope(entry, caller)
    /\ MatchKeywords(entry, text)

\* list_enabled_entries
ListEnabledEntries(es) == SelectSeq(es, LAMBDA e : e.enabled)

\* match_entries: copies of the candidates that activate
MatchEntries(es, text, caller, onlyEnabled) ==
    SelectSeq(IF onlyEnabled THEN ListEnabledEntries(es) ELSE es,
              LAMBDA e : CheckActivate(e, text, caller))

(***************************************************************************)
(* match_entries as a state machine: the registry holds one or two         *)
(* entries, and callers query it.                                          *)
(***************************************************************************)
Scopes == {<<>>, <<"admin">>, <<"g1">>}

KeywordLists == {<<>>, <<<<"b">>>>, <<BadPattern, <<"a">>>>}

MatchTexts == {<<"a">>, <<"x", "b">>, <<"(">>}

Callers ==
    [isAdmin : BOOLEAN, userId : {"", "admin"}, groupId : {"", "g1"},
     sessionId : {"", "admin"}]

\* a payload without a cron expression
Payload(name, url, enabled, valid, scope, keywords) ==
    [name |-> name, url |-> url, enabled |-> enabled, valid |-> valid,
     scope |-> scope, keywords |-> keywords, cron |-> <<>>]

MatchEntryUniverse ==
    {APIEntry(Payload(<<"a">>, <<"s1", "p">>, en, va, sc, kw)) :
        en \in BOOLEAN, va \in BOOLEAN, sc \in Scopes, kw \in KeywordLists}

OtherEntry ==
    APIEntry(Payload(<<"b">>, <<"s1", "q">>, TRUE, TRUE, <<>>, <<>>))

RegLastInit ==
    [op |-> "init", raised |-> "none", clean |-> TRUE, steps |-> 0,
     text |-> <<>>,
     caller |-> [isAdmin |-> FALSE, userId |-> "", groupId |-> "",
                 sessionId |-> ""],
     onlyEnabled |-> TRUE, matched |-> <<>>,
     input |-> <<>>]

InitMatch ==
    /\ \E e \in MatchEntryUniverse : entries \in {<<e>>, <<OtherEntry, e>>}
    /\ pool = [i \in 1..Len(entries) |-> ToDict(entries[i])]
    /\ dbPool = pool
    /\ aliased = FALSE
    /\ table = pool
    /\ regLast = RegLastInit

RegMatchEntries(text, caller, onlyEnabled) ==
    /\ regLast' = [RegLastInit EXCEPT
                      !.op = "match", !.text = text, !.caller = caller,
                      !.onlyEnabled = onlyEnabled,
                      !.matched = MatchEntries(entries, text, caller,
                                               onlyEnabled)]
    /\ UNCHANGED <<entries, pool, dbPool, aliased, table, schedVars>>

\* what a step of the registry leaves alone
RegFrame == UNCHANGED <<storeVars, concVars, batchVars, siteVars, ctlVars, pureVars>>

NextMatch ==
    \E text \in MatchTexts, caller \in Callers, onlyEnabled \in BOOLEAN :
        RegMatchEntries(text, caller, onlyEnabled) /\ RegFrame

\* the entry of the registry a query is asked about
Subject == entries[Len(entries)]

\* C4: match_entries returns an entry if and only if it is enabled, valid,
\* its scope allows the caller and one of its keyword patterns matches
\* somewhere in the text; an entry with enabled=false or valid=false is
\* never returned, whatever only_enabled is.
C4_MatchIffActive ==
    regLast.op = "match"
        => \A i \in 1..Len(entries) :
              LET e == entries[i]
                  returned == \E j \in 1..Len(regLast.matched) :
                                  regLast.matched[j] = e
              IN /\ returned
                     <=> /\ e.enabled /\ e.valid
                         /\ AllowScope(e, regLast.caller)
                         /\ \E k \in 1..Len(e.keywords) :
                                /\ e.keywords[k] # BadPattern
                                /\ Occurs(e.keywords[k], regLast.text)
                 /\ (~e.enabled \/ ~e.valid) => ~returned

\* an enabled entry that is not valid, whose scope and keyword match, was
\* asked for with only_enabled=False and not returned
C4_Witness ==
    /\ regLast.op = "match" /\ ~regLast.onlyEnabled
    /\ Subject.enabled /\ ~Subject.valid
    /\ AllowScope(Subject, regLast.caller)
    /\ MatchKeywords(Subject, regLast.text)
    /\ \A j \in 1..Len(regLast.matched) : regLast.matched[j] # Subject

\* C5: an entry whose scope is exactly ["admin"] is returned only to callers
\* with is_admin=true, whatever user, group and session id they present; an
\* entry with an empty scope is allowed for every caller.
C5_AdminScopeOnlyForAdmins ==
    regLast.op = "match"
        => \A i \in 1..Len(entries) :
              LET e == entries[i]
                  returned == \E j \in 1..Len(regLast.matched) :
                                  regLast.matched[j] = e
              IN /\ (e.scope = <<"admin">> /\ returned)
                        => regLast.caller.isAdmin
                 /\ (e.scope = <<>> /\ e.enabled /\ e.valid
                        /\ MatchKeywords(e, regLast.text)) => returned

(***************************************************************************)
(* The registry and its database.  A registry value holds the manager's    *)
(* entries and pool, the database's api_pool list, whether the two lists   *)
(* are one object (APIEntryManager.__init__ takes db.api_pool itself), and *)
(* the rows of the api_pool table in pos order.                            *)
(***************************************************************************)
Reg(es, p, dp, al, tb) ==
    [entries |-> es, pool |-> p, dbPool |-> dp, aliased |-> al, table |-> tb]

TheReg == Reg(entries, pool, dbPool, aliased, table)

\* a write to the manager's pool list, seen through db.api_pool when the
\* two are one list
WithPool(reg, p) ==
    [reg EXCEPT !.pool = p, !.dbPool = IF reg.aliased THEN p ELSE @]

\* a write to db.api_pool in place
WithDbPool(reg, p) ==
    [reg EXCEPT !.dbPool = p, !.pool = IF reg.aliased THEN p ELSE @]

NamesOf(rows) == {rows[i].name : i \in 1..Len(rows)}

\* the first and the last index of a name in a list, 0 when it has none
FirstIndex(rows, name) ==
    IF name \in NamesOf(rows)
    THEN CHOOSE i \in 1..Len(rows) :
             rows[i].name = name /\ \A j \in 1..(i - 1) : rows[j].name # name
    ELSE 0

LastIndex(rows, name) ==
    IF name \in NamesOf(rows)
    THEN CHOOSE i \in 1..Len(rows) :
             rows[i].name = name
             /\ \A j \in (i + 1)..Len(rows) : rows[j].name # name
    ELSE 0

\* _apply_pool_batch, the upserts
RECURSIVE ApplyUpserts(_, _, _)
ApplyUpserts(rows, upserts, changed) ==
    IF upserts = <<>> THEN [pool |-> rows, changed |-> changed]
    ELSE LET row == Head(upserts)
             index == LastIndex(rows, row.name)
         IN IF row.name = <<>>
            THEN ApplyUpserts(rows, Tail(upserts), changed)
            ELSE IF index = 0
            THEN ApplyUpserts(Append(rows, row), Tail(upserts), TRUE)
            ELSE IF rows[index] # row
            THEN ApplyUpserts([rows EXCEPT ![index] = row], Tail(upserts),
                              TRUE)
            ELSE ApplyUpserts(rows, Tail(upserts), changed)

\* _apply_pool_batch: the list after the batch, and whether it changed
ApplyPoolBatch(rows, upserts, deleteNames) ==
    LET kept == SelectSeq(rows, LAMBDA r : r.name \notin Range(deleteNames))
    IN ApplyUpserts(kept, upserts, Len(rows) - Len(kept) > 0)

\* _apply_pool_table_batch, the split of the upserts into UPDATEs (the name
\* has a position) and INSERTs
RECURSIVE SplitUpserts(_, _, _, _)
SplitUpserts(upserts, names, updates, inserts) ==
    IF upserts = <<>> THEN [updates |-> updates, inserts |-> inserts]
    ELSE LET row == Head(upserts)
         IN IF row.name = <<>>
            THEN SplitUpserts(Tail(upserts), names, updates, inserts)
            ELSE IF row.name \in names
            THEN SplitUpserts(Tail(upserts), names, Append(updates, row),
                              inserts)
            ELSE SplitUpserts(Tail(upserts), names \cup {row.name}, updates,
                              Append(inserts, row))

\* UPDATE api_pool SET payload = ? WHERE name = ?, for each update in turn
RECURSIVE RunUpdates(_, _)
RunUpdates(tb, updates) ==
    IF updates = <<>> THEN tb
    ELSE RunUpdates([i \in 1..Len(tb) |->
                        IF tb[i].name = Head(updates).name
                        THEN Head(updates) ELSE tb[i]],
                    Tail(updates))

\* _apply_pool_table_batch: DELETEs, then UPDATEs, then INSERTs at the end
ApplyPoolTableBatch(tb, upserts, deleteNames) ==
    LET kept == SelectSeq(tb, LAMBDA r : r.name \notin Range(deleteNames))
        split == SplitUpserts(upserts, NamesOf(kept), <<>>, <<>>)
    IN RunUpdates(kept, split.updates) \o split.inserts

\* reload_from_database: db.api_pool becomes a new list read from the table
ReloadFromDatabase(reg) ==
    [reg EXCEPT !.dbPool = reg.table, !.aliased = FALSE]

\* batch_update_api_pool / batch_update_pools.  dbFail: SQLite refuses the
\* transaction.
BatchUpdateApiPool(reg, upserts, deleteNames, dbFail) ==
    LET stats == ApplyPoolBatch(reg.dbPool, upserts, deleteNames)
        reg1 == WithDbPool(reg, stats.pool)
    IN IF dbFail
       THEN [reg |-> ReloadFromDatabase(reg1), raised |-> "sqlite3.Error"]
       ELSE IF stats.changed
       THEN [reg |-> [reg1 EXCEPT
                         !.table = ApplyPoolTableBatch(@, upserts,
                                                       deleteNames)],
             raised |-> "none"]
       ELSE [reg |-> reg1, raised |-> "none"]

(***************************************************************************)
(* APIEntryManager.  Every operation returns the registry after it and     *)
(* raised, the exception that leaves it ("none" when it returns).          *)
(***************************************************************************)
\* get_entry, as the index of the entry (0 for None)
GetEntry(es, name) == FirstIndex(es, name)

\* _resolve_unique_name
RECURSIVE ResolveFrom(_, _, _)
ResolveFrom(es, name, index) ==
    LET newName == name \o <<"_", ToString(index)>>
    IN IF GetEntry(es, newName) = 0 THEN newName
       ELSE ResolveFrom(es, name, index + 1)

ResolveUniqueName(es, name) ==
    IF GetEntry(es, name) = 0 THEN name ELSE ResolveFrom(es, name, 2)

\* ApiPayload.from_raw(...).to_dict(): TRUE when it raises ValueError
FromRawRaises(data) == data.name = <<>> \/ data.url = <<>>

\* ApiPayload.from_raw(...).to_dict() on typed fields
FromRaw(data) ==
    [data EXCEPT !.keywords = IF @ # <<>> THEN @ ELSE <<data.name>>]

\* _build_entry_data
BuildEntryData(es, payload) ==
    LET entryName == ResolveUniqueName(es, payload.name)
    IN [FromRaw(payload) EXCEPT
           !.name = entryName,
           !.keywords = IF @ # <<>> THEN @ ELSE <<entryName>>]

\* add_entries, the loop over the payloads
RECURSIVE AddLoop(_, _, _)
AddLoop(reg, payloads, created) ==
    IF payloads = <<>>
    THEN [reg |-> reg, created |-> created, raised |-> "none"]
    ELSE IF FromRawRaises(Head(payloads))
    THEN [reg |-> reg, created |-> created, raised |-> "ValueError"]
    ELSE LET fullData == BuildEntryData(reg.entries, Head(payloads))
             entry == APIEntry(fullData)
             reg1 == WithPool([reg EXCEPT !.entries = Append(@, entry)],
                              Append(reg.pool, fullData))
         IN AddLoop(reg1, Tail(payloads), Append(created, entry))

\* add_entries
AddEntries(reg, payloads, save, dbFail) ==
    LET looped == AddLoop(reg, payloads, <<>>)
        upserts == [i \in 1..Len(looped.created) |->
                       ToDict(looped.created[i])]
    IN IF looped.raised # "none" \/ ~save \/ looped.created = <<>>
       THEN [reg |-> looped.reg, raised |-> looped.raised]
       ELSE BatchUpdateApiPool(looped.reg, upserts, <<>>, dbFail)

\* dict.update: the fields the payload has replace the row's
DictUpdate(data, payload) ==
    [k \in DOMAIN data |-> IF k \in DOMAIN payload THEN payload[k]
                           ELSE data[k]]

\* an _update_one that accepts every new name
C14_RenameNeverTaken(es, name, newName) == FALSE

\* _update_one: the new name differs and another entry has it
RenameTaken(es, name, newName) ==
    newName # name /\ GetEntry(es, newName) # 0

\* _update_one.  row: the dict it returns.
UpdateOne(reg, name, payload) ==
    LET idxCfg == FirstIndex(reg.pool, name)
        idxEntry == FirstIndex(reg.entries, name)
        data == DictUpdate(reg.pool[idxCfg], payload)
        normalized == FromRaw(data)
    IN IF idxCfg = 0 \/ idxEntry = 0
       THEN [reg |-> reg, raised |-> "LookupError", row |-> None]
       ELSE IF RenameTaken(reg.entries, name, data.name)
       THEN [reg |-> reg, raised |-> "ValueError", row |-> None]
       ELSE IF FromRawRaises(data)
       THEN [reg |-> reg, raised |-> "ValueError", row |-> None]
       ELSE [reg |-> WithPool(
                        [reg EXCEPT
                            !.entries[idxEntry] = APIEntry(normalized)],
                        [reg.pool EXCEPT ![idxCfg] = normalized]),
             raised |-> "none", row |-> normalized]

\* update_entries, the loop over the updates
RECURSIVE UpdateLoop(_, _, _)
UpdateLoop(reg, updates, changed) ==
    IF updates = <<>>
    THEN [reg |-> reg, changed |-> changed, raised |-> "none"]
    ELSE IF Head(updates).name = <<>>
    THEN [reg |-> reg, changed |-> changed, raised |-> "ValueError"]
    ELSE LET one == UpdateOne(reg, Head(updates).name, Head(updates).payload)
         IN IF one.raised # "none"
            THEN [reg |-> reg, changed |-> changed, raised |-> one.raised]
            ELSE UpdateLoop(one.reg, Tail(updates), Append(changed, one.row))

\* update_entries
UpdateEntries(reg, updates, save, dbFail) ==
    LET looped == UpdateLoop(reg, updates, <<>>)
    IN IF looped.raised # "none" \/ ~save \/ looped.changed = <<>>
       THEN [reg |-> looped.reg, raised |-> looped.raised]
       ELSE BatchUpdateApiPool(looped.reg, looped.changed, <<>>, dbFail)

\* remove_entries: entries and pool rows are walked in pairs (zip)
RemoveEntries(reg, names, dbFail) ==
    LET paired == IF Len(reg.entries) <= Len(reg.pool) THEN Len(reg.entries)
                  ELSE Len(reg.pool)
        keep == {i \in 1..paired : reg.entries[i].name \notin Range(names)}
        Kept(list) ==
            LET RECURSIVE Walk(_)
                Walk(i) == IF i > paired THEN <<>>
                           ELSE IF i \in keep THEN <<list[i]>> \o Walk(i + 1)
                           ELSE Walk(i + 1)
            IN Walk(1)
        success == LET RECURSIVE Walk(_)
                       Walk(i) ==
                           IF i > paired THEN <<>>
                           ELSE IF i \in keep THEN Walk(i + 1)
                           ELSE <<reg.entries[i].name>> \o Walk(i + 1)
                   IN Walk(1)
        reg1 == WithPool([reg EXCEPT !.entries = Kept(reg.entries)],
                         Kept(reg.pool))
    IN IF success = <<>> THEN [reg |-> reg1, raised |-> "none"]
       ELSE BatchUpdateApiPool(reg1, <<>>, success, dbFail)

\* set_entries_valid, the loop over the names: the entries and pool rows
\* after it, and the names found (success) and not found (failed)
RECURSIVE SetValidLoop(_, _, _, _, _, _)
SetValidLoop(reg, names, valid, success, failed, dirty) ==
    IF names = <<>>
    THEN [reg |-> reg, success |-> success, failed |-> failed,
          dirty |-> dirty]
    ELSE LET name == Head(names)
             idx == GetEntry(reg.entries, name)
             cfg == LastIndex(reg.pool, name)
         IN IF idx = 0
            THEN SetValidLoop(reg, Tail(names), valid, success,
                              Append(failed, name), dirty)
            ELSE IF reg.entries[idx].valid # valid
            THEN SetValidLoop(
                     WithPool([reg EXCEPT !.entries[idx].valid = valid],
                              IF cfg = 0 THEN reg.pool
                              ELSE [reg.pool EXCEPT ![cfg].valid = valid]),
                     Tail(names), valid, Append(success, name), failed,
                     dirty \cup {name})
            ELSE SetValidLoop(reg, Tail(names), valid, Append(success, name),
                              failed, dirty)

\* a set_entries_valid that stores nothing
C17_SetEntriesValidNoop(reg, names, valid, dbFail) ==
    [reg |-> reg, raised |-> "none"]

\* set_entries_valid
SetEntriesValid(reg, names, valid, dbFail) ==
    LET looped == SetValidLoop(reg, names, valid, <<>>, <<>>, {})
        changedRows ==
            LET dirtyEntries == SelectSeq(looped.reg.entries,
                                          LAMBDA e : e.name \in looped.dirty)
            IN [i \in 1..Len(dirtyEntries) |-> ToDict(dirtyEntries[i])]
        saved == BatchUpdateApiPool(looped.reg, changedRows, <<>>, dbFail)
    IN IF looped.dirty = {}
       THEN [reg |-> looped.reg, raised |-> "none",
             success |-> looped.success, failed |-> looped.failed]
       ELSE [reg |-> saved.reg, raised |-> saved.raised,
             success |-> looped.success, failed |-> looped.failed]

\* initialize: the entries are rebuilt from the pool; rows that
\* normalization changed are written back
Initialize(reg, dbFail) ==
    LET stored == reg.pool
        loaded == [i \in 1..Len(stored) |-> APIEntry(stored[i])]
        rows == [i \in 1..Len(loaded) |-> ToDict(loaded[i])]
        oldNames == SelectSeq([i \in 1..Len(stored) |-> stored[i].name],
                              LAMBDA n : n # <<>>)
        reg1 == WithPool([reg EXCEPT !.entries = loaded], rows)
    IN IF rows # stored
       THEN BatchUpdateApiPool(reg1, rows, oldNames, dbFail)
       ELSE [reg |-> reg1, raised |-> "none"]

(***************************************************************************)
(* Scheduler (APISchedulerService).  A cron expression is the sequence of  *)
(* its whitespace-separated fields; a field is "*" or a token the cron     *)
(* parser rejects.  The job table is the set of the jobs of the            *)
(* AsyncIOScheduler, a job being its id and its argument.                  *)
(***************************************************************************)
NoCron == <<>>
GoodCron == <<"*", "*", "*", "*", "*">>
BadFieldCron == <<"*", "*", "*", "*", "x">>
ShortCron == <<"*">>

\* CronTrigger.from_crontab returns: five fields, each of them well formed
CronParses(cron) == Len(cron) = 5 /\ \A i \in 1..Len(cron) : cron[i] = "*"

\* APIEntry.enabled_cron
EnabledCron(entry) == entry.enabled /\ Len(entry.cron) = 5

\* the job add_job makes for an entry name
Job(name) == [id |-> <<"loreentry:">> \o name, arg |-> name]

\* add_job(..., replace_existing=True)
AddJob(jobTable, job) == {j \in jobTable : j.id # job.id} \cup {job}

\* _try_register_entry without the test of the cron expression
C18_TryRegisterAnyCron(jobTable, entry) ==
    IF entry.cron = NoCron THEN jobTable
    ELSE AddJob(jobTable, Job(entry.name))

\* _try_register_entry
TryRegisterEntry(jobTable, entry) ==
    IF entry.cron = NoCron THEN jobTable
    ELSE IF ~CronParses(entry.cron) THEN jobTable
    ELSE AddJob(jobTable, Job(entry.name))

\* _register_all: the enabled entries in list order
RECURSIVE RegisterEach(_, _)
RegisterEach(jobTable, es) ==
    IF es = <<>> THEN jobTable
    ELSE RegisterEach(TryRegisterEntry(jobTable, Head(es)), Tail(es))

RegisterAll(jobTable, es) == RegisterEach(jobTable, ListEnabledEntries(es))

\* reload: the job table after it
Reload(jobTable, isStarted, es) ==
    IF ~isStarted THEN jobTable ELSE RegisterAll({}, es)

\* _emit_changed with the scheduler's reload as the only observer
EmitChanged(emitted, es) ==
    /\ jobs' = IF emitted THEN Reload(jobs, started, es) ELSE jobs
    /\ UNCHANGED <<started, running, schedLast>>

SchedLastInit ==
    [op |-> "init", name |-> <<>>, invoked |-> FALSE, raised |-> "none",
     caught |-> FALSE, hadException |-> FALSE, jobsBefore |-> {},
     startedBefore |-> FALSE, steps |-> 0]

\* APISchedulerService.__init__: no job, not started
InitSched ==
    /\ jobs = {}
    /\ started = FALSE
    /\ running = FALSE
    /\ schedLast = SchedLastInit

(***************************************************************************)
(* The registry as a state machine: a manager made over a fresh database   *)
(* (its pool is db.api_pool itself), CRUD calls with save=True, and        *)
(* restarts of the application.                                            *)
(***************************************************************************)
AddPayloads ==
    { Payload(<<"a">>, <<"s1", "p">>, TRUE, TRUE, <<>>, <<>>),
      Payload(<<"b">>, <<"s2", "p">>, TRUE, TRUE, <<"admin">>, <<<<"a">>>>),
      Payload(<<"a">>, <<"s1", "q">>, FALSE, TRUE, <<>>, <<>>),
      Payload(<<>>, <<"s1", "p">>, TRUE, TRUE, <<>>, <<>>) }

AddLists ==
    {<<p>> : p \in AddPayloads} \cup {<<p, q>> : p, q \in AddPayloads}

RegNames == {<<"a">>, <<"b">>, <<"c">>}

UpdatePayloads ==
    { [enabled |-> FALSE], [url |-> <<"s2", "q">>], [name |-> <<"c">>],
      [name |-> <<"b">>], [name |-> <<>>] }

Update(name, payload) == [name |-> name, payload |-> payload]

UpdateLists ==
    {<<Update(n, p)>> : n \in RegNames, p \in UpdatePayloads}
    \cup {<<Update(<<"a">>, p), Update(<<"b">>, q)>> :
             p, q \in {[enabled |-> FALSE], [name |-> <<"c">>]}}

NameLists == {<<n>> : n \in RegNames} \cup {<<<<"a">>, <<"b">>>>}

\* SQLiteDatabase.__init__ on a new file and APIEntryManager.__init__
InitReg ==
    /\ entries = <<>>
    /\ pool = <<>>
    /\ dbPool = <<>>
    /\ aliased = TRUE
    /\ table = <<>>
    /\ regLast = RegLastInit

SetReg(reg) ==
    /\ entries' = reg.entries
    /\ pool' = reg.pool
    /\ dbPool' = reg.dbPool
    /\ aliased' = reg.aliased
    /\ table' = reg.table

\* what the caller of a registry operation sees; input: the payloads of an
\* add_entries
Returned(op, raised, input) ==
    /\ regLast.steps < MaxRegOps
    /\ regLast' = [RegLastInit EXCEPT
                      !.op = op, !.raised = raised,
                      !.clean = regLast.clean /\ raised = "none",
                      !.steps = regLast.steps + 1,
                      !.input = input]

\* add_entries emits when it returns and one of the created entries has a
\* cron expression of five fields
AddEmits(reg, payloads, raised) ==
    /\ raised = "none"
    /\ \E e \in Range(AddLoop(reg, payloads, <<>>).created) : EnabledCron(e)

\* remove_entries emits when it returns and it removed an entry
RemoveEmits(reg, after, raised) ==
    raised = "none" /\ Len(after.entries) < Len(reg.entries)

\* set_entries_valid emits when it returns and it changed a flag
SetValidEmits(reg, names, valid, raised) ==
    /\ raised = "none"
    /\ SetValidLoop(reg, names, valid, <<>>, <<>>, {}).dirty # {}

\* the registry has room for the entries of the payloads
Room(payloads, most) == Len(entries) + Len(payloads) <= most

RegAddEntries(payloads, dbFail) ==
    \E r \in {AddEntries(TheReg, payloads, TRUE, dbFail)} :
       /\ SetReg(r.reg)
       /\ Returned("add", r.raised, payloads)
       /\ EmitChanged(AddEmits(TheReg, payloads, r.raised), r.reg.entries)

\* update_entries: no notification is sent
RegUpdateEntries(updates, dbFail) ==
    \E r \in {UpdateEntries(TheReg, updates, TRUE, dbFail)} :
       /\ SetReg(r.reg)
       /\ Returned("update", r.raised, <<>>)
       /\ EmitChanged(FALSE, r.reg.entries)

RegRemoveEntries(names, dbFail) ==
    \E r \in {RemoveEntries(TheReg, names, dbFail)} :
       /\ SetReg(r.reg)
       /\ Returned("remove", r.raised, <<>>)
       /\ EmitChanged(RemoveEmits(TheReg, r.reg, r.raised), r.reg.entries)

RegSetEntriesValid(names, valid, dbFail) ==
    \E r \in {SetEntriesValid(TheReg, names, valid, dbFail)} :
       /\ SetReg(r.reg)
       /\ Returned("setValid", r.raised, <<>>)
       /\ EmitChanged(SetValidEmits(TheReg, names, valid, r.raised),
                      r.reg.entries)

\* The process is started again: a new SQLiteDatabase reads the table, a new
\* manager takes its api_pool, and APICoreApp.start reloads the database
\* (db.api_pool becomes another list) and initializes the manager.
RegRestart ==
    LET fresh == Reg(<<>>, table, table, TRUE, table)
        r == Initialize(ReloadFromDatabase(fresh), FALSE)
    IN /\ SetReg(r.reg)
       /\ regLast.steps < MaxRegOps
       /\ regLast' = [RegLastInit EXCEPT !.op = "restart",
                                         !.raised = r.raised,
                                         !.clean = regLast.clean,
                                         !.steps = regLast.steps + 1]
       /\ UNCHANGED schedVars

NextReg ==
    \/ \E payloads \in AddLists, dbFail \in BOOLEAN :
          /\ Room(payloads, MaxEntries)
          /\ RegAddEntries(payloads, dbFail) /\ RegFrame
    \/ \E updates \in UpdateLists, dbFail \in BOOLEAN :
          RegUpdateEntries(updates, dbFail) /\ RegFrame
    \/ \E names \in NameLists, dbFail \in BOOLEAN :
          RegRemoveEntries(names, dbFail) /\ RegFrame
    \/ \E names \in NameLists, valid \in BOOLEAN, dbFail \in BOOLEAN :
          RegSetEntriesValid(names, valid, dbFail) /\ RegFrame
    \/ RegRestart /\ RegFrame

\* the rows of the entries the manager holds
EntryRows == {ToDict(entries[i]) : i \in 1..Len(entries)}

\* C2: after any sequence of successful add_entries, update_entries,
\* remove_entries and set_entries_valid calls with save=True, the rows of the
\* api_pool table are exactly the registry's entries, same names and same
\* field values, whether or not the manager's pool is db.api_pool itself.
C2_TableMirrorsEntries ==
    (regLast.op \in {"add", "update", "remove", "setValid"} /\ regLast.clean)
        => /\ Range(table) = EntryRows
           /\ Len(table) = Len(entries)

\* a step that is a batch whose write to the row store failed
BatchWriteFailedStep ==
    /\ regLast'.steps = regLast.steps + 1
    /\ regLast'.op \in {"add", "update", "remove", "setValid"}
    /\ regLast'.raised = "sqlite3.Error"

\* C12: after a batch whose write to the row store failed, the registry's
\* entries and pool are the rows of the table, and nothing of the failed
\* batch is left in memory.
C12_FailedBatchRolledBack ==
    [][BatchWriteFailedStep
       => /\ EntryRows' = Range(table')
          /\ Range(pool') = Range(table')
          /\ entries' = entries
          /\ pool' = pool]_vars

\* C12 for a registry whose entries and pool were the rows of the table
\* before the batch
C12_FailedBatchRolledBackFromSync ==
    [][(/\ BatchWriteFailedStep
        /\ EntryRows = Range(table)
        /\ Range(pool) = Range(table)
        /\ entries # <<>>)
       => /\ EntryRows' = Range(table')
          /\ Range(pool') = Range(table')]_vars

\* a step that is an add_entries or update_entries rejecting an item
BatchRejectedStep ==
    /\ regLast'.steps = regLast.steps + 1
    /\ regLast'.op \in {"add", "update"}
    /\ regLast'.raised \in {"ValueError", "LookupError"}

\* C13: an add_entries or update_entries that rejects an item of its batch
\* adds and changes nothing, in the registry's entries and pool and in the
\* row store.
C13_BatchAllOrNothing ==
    [][BatchRejectedStep
       => /\ entries' = entries
          /\ pool' = pool
          /\ table' = table]_vars

(***************************************************************************)
(* The names of the registry: entries are added under names that are       *)
(* taken, renamed and removed.                                             *)
(***************************************************************************)
NamedPayload(name) == Payload(name, <<"s1", "p">>, TRUE, TRUE, <<>>, <<>>)

NamedAddLists ==
    { <<NamedPayload(<<"a">>)>>,
      <<NamedPayload(<<"b">>)>>,
      <<NamedPayload(<<"a">>), NamedPayload(<<"a">>)>>,
      <<NamedPayload(<<"a">>), NamedPayload(<<"a", "_", "3">>)>> }

NamedUpdateLists ==
    { <<Update(<<"a">>, [name |-> <<"b">>])>>,
      <<Update(<<"b">>, [name |-> <<"a">>])>>,
      <<Update(<<"a">>, [name |-> <<"a">>])>>,
      <<Update(<<"a", "_", "2">>, [name |-> <<"a">>])>>,
      <<Update(<<"a">>, [name |-> <<"c">>]),
        Update(<<"a", "_", "2">>, [name |-> <<"c">>])>> }

NamedNameLists == {<<<<"a">>>>, <<<<"a", "_", "2">>>>}

NextNames ==
    \/ \E payloads \in NamedAddLists, dbFail \in BOOLEAN :
          /\ Room(payloads, MaxNamed)
          /\ RegAddEntries(payloads, dbFail) /\ RegFrame
    \/ \E updates \in NamedUpdateLists, dbFail \in BOOLEAN :
          RegUpdateEntries(updates, dbFail) /\ RegFrame
    \/ \E names \in NamedNameLists, dbFail \in BOOLEAN :
          RegRemoveEntries(names, dbFail) /\ RegFrame

\* the names of the entries before the entry at position p
NamesBefore(p) == {entries[j].name : j \in 1..(p - 1)}

\* name is the first free one of wanted, wanted_2, wanted_3, ... among
\* the names taken
FirstFreeName(name, wanted, taken) ==
    IF wanted \notin taken THEN name = wanted
    ELSE \E index \in 2..(Cardinality(taken) + 2) :
            /\ name = wanted \o <<"_", ToString(index)>>
            /\ name \notin taken
            /\ \A lower \in 2..(index - 1) :
                  wanted \o <<"_", ToString(lower)>> \in taken

\* C14: no two entries of the registry have the same name, and the entries
\* an add_entries has created carry, in the order of the payloads, the
\* first free name among name, name_2, name_3, ..., the entries created
\* before them in the batch counted as taken.
C14_NamesUnique ==
    /\ \A i, j \in 1..Len(entries) :
          entries[i].name = entries[j].name => i = j
    /\ (regLast.op = "add" /\ regLast.raised = "none")
          => LET base == Len(entries) - Len(regLast.input)
             IN \A k \in 1..Len(regLast.input) :
                   FirstFreeName(entries[base + k].name,
                                 regLast.input[k].name,
                                 NamesBefore(base + k))

\* an add_entries has named an entry a_2 while a and a_3 were taken
C14_Witness ==
    /\ regLast.op = "add"
    /\ regLast.raised = "none"
    /\ Len(regLast.input) = 1
    /\ regLast.input[1].name = <<"a">>
    /\ Len(entries) = 3
    /\ entries[1].name = <<"a">>
    /\ entries[2].name = <<"a", "_", "3">>
    /\ entries[3].name = <<"a", "_", "2">>

\* an update_entries has refused to rename an entry to the name of
\* another one
C14_WitnessRename ==
    /\ regLast.op = "update"
    /\ regLast.raised = "ValueError"
    /\ NamesOf(entries) = {<<"a">>, <<"b">>}

(***************************************************************************)
(* Batch verifier (RemoteDataService.stream_test_apis).  The generator     *)
(* yields events to its consumer; one site_worker task per base URL sends  *)
(* that site's requests and puts the results on a queue the generator      *)
(* reads.  Steps are taken at the awaits: a request is sent, a response    *)
(* arrives, a sleep ends, the generator takes an item off the queue.       *)
(***************************************************************************)
BatchRegistry ==
    << APIEntry(Payload(<<"a">>, <<"s1", "p">>, TRUE, TRUE, <<>>, <<>>)),
       APIEntry(Payload(<<"b">>, <<"s1", "q">>, TRUE, FALSE, <<>>, <<>>)),
       APIEntry(Payload(<<"c">>, <<"s2", "p">>, TRUE, TRUE, <<>>, <<>>)) >>

\* the lists of entries stream_test_apis is called with
BatchSelections ==
    LET e == BatchRegistry
    IN { <<>>, <<e[1]>>, <<e[1], e[2]>>, <<e[2], e[1]>>, <<e[1], e[3]>>,
         <<e[1], e[2], e[3]>>, <<e[3], e[2], e[1]>> }

\* what a request of the batch ends in: a result is_valid accepts, one it
\* rejects, or an exception caught by the worker
Outcomes == {"valid", "invalid", "exception"}

\* a grouping that gives every entry a worker of its own
C9_GroupByName(entry) == entry.name

\* the key site_to_entries groups the entries by
GroupKey(entry) == GetBaseUrl(entry)

\* site_to_entries: per key, the entries of the key in list order
SiteToEntries(es) ==
    [k \in {GroupKey(es[i]) : i \in 1..Len(es)} |->
        SelectSeq(es, LAMBDA e : GroupKey(e) = k)]

Event(event, name, completed, total, ok, valid, invalid) ==
    [event |-> event, name |-> name, completed |-> completed,
     total |-> total, ok |-> ok, valid |-> valid, invalid |-> invalid]

BatchIdle ==
    [pc |-> "idle", entries |-> <<>>, total |-> 0, interval |-> FALSE,
     workers |-> <<>>, queue |-> <<>>, completed |-> 0,
     completedWorkers |-> 0, succeeded |-> {}, events |-> <<>>,
     log |-> <<>>, given |-> FALSE, selection |-> <<>>]

InitBatch == batch = BatchIdle

\* a step of the batch tester that does not reach the registry
BatchOnly == UNCHANGED <<regVars, schedVars>>

\* the registry a batch runs over, one without its last entry, or an empty
\* one: separate lists, the table in step
InitBatchReg ==
    /\ entries \in {BatchRegistry, SubSeq(BatchRegistry, 1, 2), <<>>}
    /\ pool = [i \in 1..Len(entries) |-> ToDict(entries[i])]
    /\ dbPool = pool
    /\ aliased = FALSE
    /\ table = pool
    /\ regLast = RegLastInit

\* a "failed" list that names every entry
C6_FailedNamesAll(es, succeeded) == [i \in 1..Len(es) |-> es[i].name]

\* a "failed" list that names the entries that succeeded
C32_FailedNamesSucceeded(es, succeeded) ==
    LET ok == SelectSeq(es, LAMBDA e : e.name \in succeeded)
    IN [i \in 1..Len(ok) |-> ok[i].name]

\* failed_names: the entries, in list order, whose name did not succeed
FailedNames(es, succeeded) ==
    LET failed == SelectSeq(es, LAMBDA e : e.name \notin succeeded)
    IN [i \in 1..Len(failed) |-> failed[i].name]

\* stream_test_apis up to its first yield: the entries are the argument, or
\* all entries of the registry when it is empty or None (given: the caller
\* has passed a list)
GenStart(given, selection, interval) ==
    LET es == IF given /\ selection # <<>> THEN selection ELSE entries
    IN /\ batch.pc = "idle"
       /\ given \/ selection = <<>>
       /\ batch' = [BatchIdle EXCEPT
                       !.pc = IF Len(es) = 0 THEN "empty" ELSE "atStart",
                       !.given = given, !.selection = selection,
                       !.entries = es, !.total = Len(es),
                       !.interval = interval,
                       !.events = <<Event("start", <<>>, 0, Len(es), FALSE,
                                          <<>>, <<>>)>>]
       /\ BatchOnly

\* total == 0: the done event follows at once
GenEmptyDone ==
    /\ batch.pc = "empty"
    /\ batch' = [batch EXCEPT
                    !.pc = "done",
                    !.events = Append(@, Event("done", <<>>, 0, 0, FALSE,
                                               <<>>, <<>>))]
    /\ BatchOnly

\* the generator is resumed after the start event: the workers are made
GenCreateWorkers ==
    /\ batch.pc = "atStart"
    /\ batch' = [batch EXCEPT
                    !.pc = "loop",
                    !.workers =
                        LET groups == SiteToEntries(batch.entries)
                        IN [k \in DOMAIN groups |->
                               [entries |-> groups[k], index |-> 1,
                                pc |-> "ready"]]]
    /\ BatchOnly

\* site_worker: the request of its next entry is sent
WorkerRequest(k) ==
    LET w == batch.workers[k]
    IN /\ w.pc = "ready"
       /\ batch' = [batch EXCEPT
                       !.workers[k].pc = "inflight",
                       !.log = Append(@, [name |-> w.entries[w.index].name,
                                          kind |-> "start",
                                          outcome |-> ""])]
       /\ BatchOnly

\* a site_worker that ends without its marker
C16_WorkerItemsNoMarker(item, marker, hasMore) == <<item>>

\* site_worker: what it puts on the queue when a request has ended
WorkerItems(item, marker, hasMore) ==
    IF hasMore THEN <<item>> ELSE <<item, marker>>

\* site_worker: the request ends; the result goes on the queue, and after
\* the last entry the (None, None) marker
WorkerResponse(k, outcome) ==
    LET w == batch.workers[k]
        name == w.entries[w.index].name
        hasMore == w.index < Len(w.entries)
        item == [marker |-> FALSE, name |-> name, outcome |-> outcome]
        marker == [marker |-> TRUE, name |-> <<>>, outcome |-> ""]
    IN /\ w.pc = "inflight"
       /\ batch' = [batch EXCEPT
                       !.workers[k].pc =
                           IF ~hasMore THEN "finished"
                           ELSE IF batch.interval THEN "sleeping"
                           ELSE "ready",
                       !.workers[k].index = IF hasMore THEN @ + 1 ELSE @,
                       !.queue = @ \o WorkerItems(item, marker, hasMore),
                       !.log = Append(@, [name |-> name, kind |-> "end",
                                          outcome |-> outcome])]
       /\ BatchOnly

\* site_worker: asyncio.sleep(batch_site_interval_seconds) is over
WorkerWake(k) ==
    /\ batch.workers[k].pc = "sleeping"
    /\ batch' = [batch EXCEPT !.workers[k].pc = "ready"]
    /\ BatchOnly

\* a loop that reports every result as valid
C15_ProgressAlwaysValid(outcome) == TRUE

\* the valid field of a progress event: false for an exception, is_valid()
\* of the result otherwise
ProgressValid(outcome) == outcome = "valid"

\* a loop that saves the body of every valid result as a text of x
C35_StoreSavesValid(store, name, outcome) ==
    IF outcome = "valid"
    THEN SaveData(store, "text", <<"x">>, <<"b">>, None).store
    ELSE store

\* the content store after the loop has handled a result: the result goes
\* into the progress event and nowhere else
StoreAfterResult(store, name, outcome) == store

\* the generator's loop: one item is taken off the queue; a marker counts a
\* finished worker, a result yields a progress event
GenGet ==
    LET item == Head(batch.queue)
    IN /\ batch.pc = "loop"
       /\ batch.completedWorkers < Cardinality(DOMAIN batch.workers)
       /\ batch.queue # <<>>
       /\ batch' =
              IF item.marker
              THEN [batch EXCEPT !.queue = Tail(@),
                                 !.completedWorkers = @ + 1]
              ELSE [batch EXCEPT
                       !.queue = Tail(@),
                       !.completed = @ + 1,
                       !.succeeded = IF ProgressValid(item.outcome)
                                     THEN @ \cup {item.name} ELSE @,
                       !.events =
                           Append(@, Event("progress", item.name,
                                           batch.completed + 1, batch.total,
                                           ProgressValid(item.outcome),
                                           <<>>, <<>>))]
       /\ SetStore(IF item.marker THEN TheStore
                   ELSE StoreAfterResult(TheStore, item.name, item.outcome))
       /\ UNCHANGED <<storeLast, concVars, siteVars, ctlVars, pureVars>>
       /\ BatchOnly

\* the orders list(succeeded) can have
Orderings(S) ==
    {q \in [1..Cardinality(S) -> S] : \A x \in S : \E i \in DOMAIN q : q[i] = x}

\* after the loop: the workers are gathered, the validity flags are stored
\* (the database accepts the writes), and the done event is yielded
GenFinish(successNames) ==
    /\ batch.pc = "loop"
    /\ batch.completedWorkers = Cardinality(DOMAIN batch.workers)
    /\ \A k \in DOMAIN batch.workers : batch.workers[k].pc = "finished"
    /\ \E failedNames \in {FailedNames(batch.entries, batch.succeeded)} :
       \E r1 \in {SetEntriesValid(TheReg, successNames, TRUE, FALSE)} :
       \E r2 \in {SetEntriesValid(r1.reg, failedNames, FALSE, FALSE)} :
          /\ batch' = [batch EXCEPT
                          !.pc = "done",
                          !.events = Append(@, Event("done", <<>>,
                                                     batch.completed,
                                                     batch.total, FALSE,
                                                     successNames,
                                                     failedNames))]
          /\ SetReg(r2.reg)
          /\ regLast' = [RegLastInit EXCEPT !.op = "setValid",
                                            !.raised = r2.raised]
          /\ EmitChanged(IF SetValidEmits(TheReg, successNames, TRUE,
                                          r1.raised)
                         THEN TRUE
                         ELSE SetValidEmits(r1.reg, failedNames, FALSE,
                                            r2.raised),
                         r2.reg.entries)

\* what a step of the batch tester leaves alone
BatchFrame == UNCHANGED <<storeVars, concVars, siteVars, ctlVars, pureVars>>

NextBatch ==
    \/ \E given \in BOOLEAN, selection \in BatchSelections,
          interval \in BOOLEAN :
          GenStart(given, selection, interval) /\ BatchFrame
    \/ GenEmptyDone /\ BatchFrame
    \/ GenCreateWorkers /\ BatchFrame
    \/ \E k \in DOMAIN batch.workers : WorkerRequest(k) /\ BatchFrame
    \/ \E k \in DOMAIN batch.workers, outcome \in Outcomes :
          WorkerResponse(k, outcome) /\ BatchFrame
    \/ \E k \in DOMAIN batch.workers : WorkerWake(k) /\ BatchFrame
    \/ GenGet
    \/ \E successNames \in Orderings(batch.succeeded) :
          GenFinish(successNames) /\ BatchFrame


\* the steps the event loop takes once stream_test_apis was called and
\* while its consumer goes on reading: the generator's and the workers'
BatchRuns ==
    \/ GenEmptyDone /\ BatchFrame
    \/ GenCreateWorkers /\ BatchFrame
    \/ \E k \in DOMAIN batch.workers : WorkerRequest(k) /\ BatchFrame
    \/ \E k \in DOMAIN batch.workers, outcome \in Outcomes :
          WorkerResponse(k, outcome) /\ BatchFrame
    \/ \E k \in DOMAIN batch.workers : WorkerWake(k) /\ BatchFrame
    \/ GenGet
    \/ \E successNames \in Orderings(batch.succeeded) :
          GenFinish(successNames) /\ BatchFrame

\* the lists a batch test that is followed to its end is called with: all
\* entries, two entries of one site, two entries of two sites
FairSelections ==
    LET e == BatchRegistry
    IN {<<>>, <<e[1], e[2]>>, <<e[3], e[2]>>}

\* the registries such a batch test runs over
InitBatchFairReg ==
    /\ entries \in {SubSeq(BatchRegistry, 1, 2), <<>>}
    /\ pool = [i \in 1..Len(entries) |-> ToDict(entries[i])]
    /\ dbPool = pool
    /\ aliased = FALSE
    /\ table = pool
    /\ regLast = RegLastInit

NextBatchFair ==
    \/ \E selection \in FairSelections, interval \in BOOLEAN :
          GenStart(selection # <<>>, selection, interval) /\ BatchFrame
    \/ BatchRuns

\* the names of the entries under test
BatchNames == {batch.entries[i].name : i \in 1..Len(batch.entries)}

\* C6: for a non-empty list of n entries with distinct names the events
\* are one start (total=n) first, then n progress events, one per entry,
\* with completed counting 1..n, then one done last; done.valid and
\* done.invalid are disjoint and together are the n names.
C6_EventOrder ==
    LET ev == batch.events
        n == batch.total
        done == ev[Len(ev)]
    IN (batch.pc # "idle" /\ n > 0)
        => /\ Len(ev) >= 1 /\ Len(ev) <= n + 2
           /\ ev[1].event = "start" /\ ev[1].total = n
           /\ \A i \in 2..Len(ev) :
                  IF i <= n + 1
                  THEN /\ ev[i].event = "progress"
                       /\ ev[i].completed = i - 1
                       /\ ev[i].name \in BatchNames
                       /\ \A j \in 2..(i - 1) : ev[j].name # ev[i].name
                  ELSE ev[i].event = "done"
           /\ batch.pc = "done"
                  => /\ Len(ev) = n + 2
                     /\ Range(done.valid) \cap Range(done.invalid) = {}
                     /\ Range(done.valid) \cup Range(done.invalid)
                            = BatchNames
                     /\ Len(done.valid) + Len(done.invalid) = n

\* three entries on two sites were tested, some valid and some not
C6_Witness ==
    /\ batch.pc = "done" /\ batch.total = 3
    /\ Cardinality(DOMAIN batch.workers) = 2
    /\ batch.events[5].valid # <<>> /\ batch.events[5].invalid # <<>>

\* the requests of a site, as the batch logged them
SiteLog(site) ==
    SelectSeq(batch.log,
              LAMBDA x : GetBaseUrl(batch.entries[FirstIndex(batch.entries,
                                                             x.name)]) = site)

\* C9: in a batch test every site has at most one request in flight, its
\* entries are requested in list order, and a request starts only after
\* the site's previous request has ended.
C9_SiteRequestsSequential ==
    \A site \in {GetBaseUrl(batch.entries[i]) : i \in 1..Len(batch.entries)} :
        LET siteEntries == SelectSeq(batch.entries,
                                     LAMBDA e : GetBaseUrl(e) = site)
            siteLog == SiteLog(site)
        IN /\ Len(siteLog) <= 2 * Len(siteEntries)
           /\ \A i \in 1..Len(siteLog) :
                  /\ siteLog[i].kind = IF i % 2 = 1 THEN "start" ELSE "end"
                  /\ siteLog[i].name = siteEntries[(i + 1) \div 2].name

\* requests of two sites are in flight at once, the second request of one
\* of the sites among them
C9_Witness ==
    /\ \E k1, k2 \in DOMAIN batch.workers :
           /\ k1 # k2
           /\ batch.workers[k1].pc = "inflight"
           /\ batch.workers[k2].pc = "inflight"
           /\ batch.workers[k1].index = 2

\* the progress events of a name
ProgressOf(name) ==
    {i \in 1..Len(batch.events) : /\ batch.events[i].event = "progress"
                                  /\ batch.events[i].name = name}

\* the request of the name has ended without a valid result
RequestFailed(name) ==
    \E i \in 1..Len(batch.log) : /\ batch.log[i].kind = "end"
                                 /\ batch.log[i].name = name
                                 /\ batch.log[i].outcome # "valid"

\* the progress event of an entry whose request failed or raised has
\* valid=false, and at the done event every entry of the batch was
\* requested and has one progress event
C15_FailuresReported ==
    /\ \A name \in BatchNames :
          RequestFailed(name)
              => \A i \in ProgressOf(name) : ~batch.events[i].ok
    /\ (batch.pc = "done" /\ batch.total > 0)
          => \A name \in BatchNames :
                /\ \E i \in 1..Len(batch.log) : /\ batch.log[i].kind = "start"
                                                /\ batch.log[i].name = name
                /\ Cardinality(ProgressOf(name)) = 1

QueuedMarkers ==
    Cardinality({i \in 1..Len(batch.queue) : batch.queue[i].marker})

\* the workers that have run to their end
FinishedWorkers ==
    {k \in DOMAIN batch.workers : batch.workers[k].pc = "finished"}

\* a worker's marker is on the queue or was read exactly when the worker
\* has put all its results, no result is queued behind the last marker,
\* and at the done event of a non-empty batch all markers were read, the
\* queue is empty and every entry was reported
C16_MarkersCloseTheQueue ==
    /\ QueuedMarkers + batch.completedWorkers = Cardinality(FinishedWorkers)
    /\ (FinishedWorkers = DOMAIN batch.workers /\ batch.queue # <<>>)
          => batch.queue[Len(batch.queue)].marker
    /\ (batch.pc = "done" /\ batch.total > 0)
          => /\ batch.completedWorkers = Cardinality(DOMAIN batch.workers)
             /\ batch.queue = <<>>
             /\ batch.completed = batch.total

DoneEmitted(b) ==
    \E i \in 1..Len(b.events) : b.events[i].event = "done"

\* the step of the generator that follows its loop over the queue
FinishStep == batch.pc = "loop" /\ batch'.pc = "done"

\* a step has changed the valid flag of an entry or of a row
FlagsWritten ==
    \/ \E i \in 1..Len(entries) : entries'[i].valid # entries[i].valid
    \/ \E r \in 1..Len(table) : table'[r].valid # table[r].valid

C35_BatchLeavesStore ==
    [][batch' # batch
          => /\ textFiles' = textFiles
             /\ binDirs' = binDirs
             /\ clock' = clock]_vars

\* a batch of three entries is done, two of them with a valid response,
\* and the store holds what it held at the start
C35_Witness ==
    /\ batch.pc = "done"
    /\ batch.total = 3
    /\ Cardinality(batch.succeeded) = 2
    /\ \A p \in TextPaths : textFiles[p] = NoFile
    /\ \A n \in BinNames : binDirs[n] = NoDir

\* the names of the entries of a list
ListNames(es) == {es[i].name : i \in 1..Len(es)}

\* C37: a batch test requests the entries its caller has selected and no
\* others; called with an empty list it requests nothing, reports
\* total=0 and changes no valid flag.
C37_OnlySelectionTested ==
    (batch.pc # "idle" /\ batch.given)
        => /\ batch.total = Len(batch.selection)
           /\ \A i \in 1..Len(batch.log) :
                 batch.log[i].name \in ListNames(batch.selection)
           /\ batch.selection = <<>>
                 => \A i \in 1..Len(entries) :
                       entries[i].valid = BatchRegistry[i].valid

(***************************************************************************)
(* A consumer that leaves the stream (DashboardServer.test_api_stream):    *)
(* the client has gone, response.write raises ConnectionResetError, the    *)
(* handler leaves its "async for" and the generator is closed where it     *)
(* stands.                                                                 *)
(***************************************************************************)
\* what a write to a client that has gone ends in
DisconnectErrors == {"ConnectionResetError"}

\* test_api_stream: what leaves the handler when response.write raised
\* writeExc in the loop and write_eof ends in eofExc
TestApiStream(writeExc, eofExc) ==
    LET body == IF writeExc = "ConnectionResetError" THEN "none"
                ELSE IF Catches(writeExc) THEN "none"
                ELSE writeExc
    IN IF eofExc \in {"none", "ConnectionResetError"} THEN body ELSE eofExc

\* a generator that cancels its tasks when it is closed
C33_WorkersCancelled(workers) ==
    [k \in DOMAIN workers |-> [workers[k] EXCEPT !.pc = "cancelled"]]

\* the site_worker tasks when the generator is closed: stream_test_apis
\* has no finally and cancels nothing, the tasks stay scheduled
WorkersAfterClose(workers) == workers

\* the consumer stops reading before done; no more of the generator runs
Abandon(writeExc, eofExc) ==
    /\ batch.pc \in {"empty", "atStart", "loop"}
    /\ batch' = [batch EXCEPT
                    !.pc = IF TestApiStream(writeExc, eofExc) = "none"
                           THEN "abandoned" ELSE "raised",
                    !.workers = WorkersAfterClose(@)]
    /\ BatchOnly

\* the steps of the site_worker tasks
WorkerSteps ==
    \/ \E k \in DOMAIN batch.workers : WorkerRequest(k) /\ BatchFrame
    \/ \E k \in DOMAIN batch.workers, outcome \in Outcomes :
          WorkerResponse(k, outcome) /\ BatchFrame
    \/ \E k \in DOMAIN batch.workers : WorkerWake(k) /\ BatchFrame

NextAbandon ==
    \/ \E selection \in FairSelections, interval \in BOOLEAN :
          GenStart(selection # <<>>, selection, interval) /\ BatchFrame
    \/ GenEmptyDone /\ BatchFrame
    \/ GenCreateWorkers /\ BatchFrame
    \/ \E k \in DOMAIN batch.workers : WorkerRequest(k) /\ BatchFrame
    \/ \E k \in DOMAIN batch.workers, outcome \in Outcomes :
          WorkerResponse(k, outcome) /\ BatchFrame
    \/ \E k \in DOMAIN batch.workers : WorkerWake(k) /\ BatchFrame
    \/ GenGet
    \/ \E successNames \in Orderings(batch.succeeded) :
          GenFinish(successNames) /\ BatchFrame
    \/ \E writeExc \in DisconnectErrors,
          eofExc \in DisconnectErrors \cup {"none"} :
          Abandon(writeExc, eofExc) /\ BatchFrame

\* the worker has sent the requests of all its entries and has ended
RanToEnd(w) ==
    /\ w.pc = "finished"
    /\ \A i \in 1..Len(w.entries) :
          \A kind \in {"start", "end"} :
             \E j \in 1..Len(batch.log) :
                /\ batch.log[j].name = w.entries[i].name
                /\ batch.log[j].kind = kind

\* C33: when the consumer stops reading the stream before done, nothing
\* is raised in the handler, the workers that were started are left as
\* they are and go on: no step of theirs is lost or fails, and each of
\* them sends the requests of all its entries and ends.
C33_AbandonedWorkersFinish ==
    /\ [][(batch.pc \in {"empty", "atStart", "loop"}
               /\ batch'.pc \notin {"empty", "atStart", "loop", "done"})
           => /\ batch'.pc = "abandoned"
              /\ batch'.workers = batch.workers
              /\ batch'.queue = batch.queue]_vars
    /\ [][batch.pc = "abandoned"
           => /\ batch'.pc = "abandoned"
              /\ \A k \in DOMAIN batch.workers :
                    batch'.workers[k].pc
                        \in {"ready", "inflight", "sleeping", "finished"}]_vars
    /\ (batch.pc = "abandoned")
          ~> (\A k \in DOMAIN batch.workers : RanToEnd(batch.workers[k]))

\* the stream of two entries on two sites was left after the first
\* progress event; both workers have ended since, and a result and the
\* markers lie on the queue unread
C33_Witness ==
    /\ batch.pc = "abandoned"
    /\ Len(batch.events) = 2
    /\ Cardinality(DOMAIN batch.workers) = 2
    /\ \A k \in DOMAIN batch.workers : RanToEnd(batch.workers[k])
    /\ Len(batch.queue) = 3

(***************************************************************************)
(* The scheduler as a state machine: the registry is edited through        *)
(* add_entries, update_entries, remove_entries and set_entries_valid while *)
(* the service is started, reloaded and shut down and the jobs of its      *)
(* table fire.  AsyncIOScheduler is the library's: a job fires only while  *)
(* the scheduler runs, and its shutdown empties the table of the memory    *)
(* job store.                                                              *)
(***************************************************************************)
CronPayload(name, enabled, cron) ==
    [Payload(name, <<"s1", "p">>, enabled, TRUE, <<>>, <<>>)
        EXCEPT !.cron = cron]

SchedAddLists ==
    { <<CronPayload(<<"a">>, TRUE, GoodCron)>>,
      <<CronPayload(<<"a">>, FALSE, GoodCron)>>,
      <<CronPayload(<<"b">>, TRUE, NoCron)>>,
      <<CronPayload(<<"b">>, TRUE, BadFieldCron),
        CronPayload(<<"a">>, TRUE, GoodCron)>>,
      <<CronPayload(<<"a">>, TRUE, ShortCron),
        CronPayload(<<"b">>, TRUE, GoodCron)>>,
      <<CronPayload(<<"a">>, TRUE, GoodCron),
        CronPayload(<<"b">>, TRUE, GoodCron)>> }

SchedNames == {<<"a">>, <<"b">>}

SchedUpdateLists ==
    {<<Update(n, p)>> :
        n \in SchedNames,
        p \in {[enabled |-> FALSE], [cron |-> NoCron], [cron |-> GoodCron],
               [name |-> <<"c">>]}}

SchedNameLists == {<<n>> : n \in SchedNames}

\* what the trigger callback does when it is awaited
CallbackOutcomes == {"returns", "Exception"}

\* a firing without the except clause
C20_TriggerCatchesNothing(exc) == FALSE

\* the except clause of _on_trigger
TriggerCatches(exc) == exc = "Exception"

\* the gate of _on_trigger without the validity test
C19_TriggerGateNoValid(es, name) ==
    /\ GetEntry(es, name) # 0
    /\ es[GetEntry(es, name)].enabled

\* the gate of _on_trigger: the entry of the name exists, is enabled and
\* is valid
TriggerGate(es, name) ==
    /\ GetEntry(es, name) # 0
    /\ es[GetEntry(es, name)].enabled
    /\ es[GetEntry(es, name)].valid

\* the steps left to a behaviour with the scheduler
SchedBudget == regLast.steps + schedLast.steps < MaxSchedOps

SchedReturned(op, name, invoked, caught, raised) ==
    /\ SchedBudget
    /\ schedLast' = [op |-> op, name |-> name, invoked |-> invoked,
                     raised |-> raised, caught |-> caught,
                     hadException |-> schedLast.hadException \/ caught
                                      \/ raised # "none",
                     jobsBefore |-> jobs, startedBefore |-> started,
                     steps |-> schedLast.steps + 1]

\* start
SchedStart ==
    /\ jobs' = IF started THEN jobs
               ELSE IF running THEN RegisterAll({}, entries)
               ELSE RegisterAll(jobs, entries)
    /\ running' = IF started THEN running ELSE TRUE
    /\ started' = TRUE
    /\ SchedReturned("start", <<>>, FALSE, FALSE, "none")

\* reload
SchedReload ==
    /\ jobs' = Reload(jobs, started, entries)
    /\ UNCHANGED <<started, running>>
    /\ SchedReturned("reload", <<>>, FALSE, FALSE, "none")

\* shutdown.  fails: AsyncIOScheduler.shutdown raises, and the scheduler
\* goes on running.
SchedShutdown(fails) ==
    /\ fails => running
    /\ jobs' = IF running /\ ~fails THEN {} ELSE jobs
    /\ running' = (running /\ fails)
    /\ started' = FALSE
    /\ SchedReturned("shutdown", <<>>, FALSE, FALSE, "none")

\* _on_trigger, called by the scheduler for a job of its table
Fire(name, outcome) ==
    /\ running
    /\ Job(name) \in jobs
    /\ UNCHANGED <<jobs, started, running>>
    /\ SchedReturned("fire", name, TriggerGate(entries, name),
                     /\ TriggerGate(entries, name)
                     /\ outcome # "returns"
                     /\ TriggerCatches(outcome),
                     IF /\ TriggerGate(entries, name)
                        /\ outcome # "returns"
                        /\ ~TriggerCatches(outcome)
                     THEN outcome ELSE "none")

SchedFrame ==
    UNCHANGED <<storeVars, concVars, regVars, batchVars, siteVars, ctlVars, pureVars>>

NextSched ==
    \/ \E payloads \in SchedAddLists, dbFail \in BOOLEAN :
          /\ SchedBudget /\ Room(payloads, MaxEntries)
          /\ RegAddEntries(payloads, dbFail) /\ RegFrame
    \/ \E updates \in SchedUpdateLists :
          SchedBudget /\ RegUpdateEntries(updates, FALSE) /\ RegFrame
    \/ \E names \in SchedNameLists, dbFail \in BOOLEAN :
          SchedBudget /\ RegRemoveEntries(names, dbFail) /\ RegFrame
    \/ \E names \in SchedNameLists, valid \in BOOLEAN :
          SchedBudget /\ RegSetEntriesValid(names, valid, FALSE) /\ RegFrame
    \/ SchedStart /\ SchedFrame
    \/ SchedReload /\ SchedFrame
    \/ \E fails \in BOOLEAN : SchedShutdown(fails) /\ SchedFrame
    \/ \E name \in {j.arg : j \in jobs}, outcome \in CallbackOutcomes :
          Fire(name, outcome) /\ SchedFrame

\* the jobs of the enabled entries whose cron expression parses
CronJobsOf(es) ==
    {[id |-> <<"loreentry:">> \o es[i].name, arg |-> es[i].name] :
        i \in {k \in 1..Len(es) : /\ es[k].enabled
                                   /\ es[k].cron = GoodCron}}

\* C11: while the scheduler is started, a registry operation that returns
\* and has added, updated or removed an entry leaves the job table equal to
\* the jobs of the enabled entries whose cron expression parses.
C11_TableRebuiltAfterChange ==
    [][(/\ started
        /\ regLast'.steps = regLast.steps + 1
        /\ regLast'.op \in {"add", "update", "remove"}
        /\ regLast'.raised = "none"
        /\ entries' # entries)
       => jobs' = CronJobsOf(entries')]_vars

\* a step that is a call of start or of reload
StartOrReloadStep ==
    /\ schedLast'.steps = schedLast.steps + 1
    /\ schedLast'.op \in {"start", "reload"}

FireStep ==
    /\ schedLast'.steps = schedLast.steps + 1
    /\ schedLast'.op = "fire"

\* the registry holds an enabled and valid entry of the name
ActiveEntryNamed(name) ==
    \E i \in 1..Len(entries) : /\ entries[i].name = name
                               /\ entries[i].enabled
                               /\ entries[i].valid

\* C19: a firing for the name n invokes the trigger callback only if the
\* registry then holds an entry named n that is enabled and valid.
C19_FiringIsGated ==
    [][FireStep => (schedLast'.invoked => ActiveEntryNamed(schedLast'.name))
      ]_vars

\* a job has fired for an entry that the registry no longer holds, holds
\* disabled, or holds invalid, and nothing was invoked
C19_Witness ==
    /\ schedLast.op = "fire"
    /\ ~schedLast.invoked
    /\ Job(schedLast.name) \in jobs
    /\ ~ActiveEntryNamed(schedLast.name)
    /\ regLast.op \in {"update", "setValid"}
    /\ regLast.raised = "none"

\* C20: a firing never raises to the scheduler and leaves the job table as
\* it was, and after a firing whose callback raised, a firing for an
\* enabled and valid entry still invokes the callback.
C20_CallbackExceptionContained ==
    [][FireStep
       => /\ schedLast'.raised = "none"
          /\ jobs' = jobs
          /\ (schedLast.hadException /\ ActiveEntryNamed(schedLast'.name))
                => schedLast'.invoked]_vars

\* the callback raised in the firing of one entry, and the next firing, of
\* another entry, invoked it again
C20_Witness ==
    /\ schedLast.op = "fire"
    /\ schedLast.invoked
    /\ schedLast.hadException
    /\ ~schedLast.caught
    /\ schedLast.name = <<"b">>
    /\ jobs = {Job(<<"a">>), Job(<<"b">>)}

(***************************************************************************)
(* Functions of a value.  A behaviour starts with an argument drawn from a *)
(* bounded set and applies the function to it.                             *)
(***************************************************************************)
NoCall == [fn |-> "none", arg |-> None, out |-> None]

InitPure == applied = NoCall

\* no site is registered
InitSite == siteMgrEntries = <<>> /\ sitePool = <<>>

Given(arg) == [fn |-> "given", arg |-> arg, out |-> None]

Apply(fn, out) ==
    /\ applied.fn = "given"
    /\ applied' = [fn |-> fn, arg |-> applied.arg, out |-> out]

PureFrame ==
    UNCHANGED <<storeVars, concVars, regVars, batchVars, schedVars, siteVars, ctlVars>>

(***************************************************************************)
(* RequestResult.is_valid on the body of a response.  A text is a sequence *)
(* of tokens: words, blanks, quotes and the punctuation of JSON.           *)
(***************************************************************************)
QUOTE == "\""

\* str.lower, token by token
LowerToken(c) ==
    CASE c = "Not" -> "not"
      [] c = "Found" -> "found"
      [] c = "Access" -> "access"
      [] c = "Denied" -> "denied"
      [] c = "Forbidden" -> "forbidden"
      [] c = "<HTML" -> "<html"
      [] c = "False" -> "false"
      [] c = "Text/HTML" -> "text/html"
      [] OTHER -> c

Lower(t) == [i \in 1..Len(t) |-> LowerToken(t[i])]

StartsWith(t, c) == t # <<>> /\ t[1] = c
EndsWith(t, c) == t # <<>> /\ t[Len(t)] = c

\* JSON values
IntVal(n) == [t |-> "int", n |-> n, s |-> <<>>, items |-> <<>>]
BoolVal(b) == [t |-> "bool", n |-> IF b THEN 1 ELSE 0, s |-> <<>>,
               items |-> <<>>]
NullVal == [t |-> "null", n |-> 0, s |-> <<>>, items |-> <<>>]
StrVal(s) == [t |-> "str", n |-> 0, s |-> s, items |-> <<>>]
ListVal(items) == [t |-> "list", n |-> 0, s |-> <<>>, items |-> items]
DictVal(items) == [t |-> "dict", n |-> 0, s |-> <<>>, items |-> items]

NumberTokens == {"0", "200", "403"}
NumberOf(c) == CASE c = "0" -> 0 [] c = "200" -> 200 [] c = "403" -> 403

\* json.loads as a recursive descent over the tokens; ok is FALSE where
\* json.loads raises
ParseFail == [ok |-> FALSE, val |-> NullVal, rest |-> <<>>]
Parsed(val, rest) == [ok |-> TRUE, val |-> val, rest |-> rest]

RECURSIVE SkipWs(_)
SkipWs(ts) ==
    IF ts # <<>> /\ Head(ts) \in Whitespace THEN SkipWs(Tail(ts)) ELSE ts

ParseString(ts) ==
    LET body == Tail(ts)
        closes == {i \in 1..Len(body) : body[i] = QUOTE}
        close == CHOOSE i \in closes : \A j \in closes : i <= j
    IN IF closes = {} THEN ParseFail
       ELSE Parsed(StrVal(SubSeq(body, 1, close - 1)),
                   SubSeq(body, close + 1, Len(body)))

RECURSIVE ParseValue(_), ParseElems(_, _), ParseMembers(_, _)
ParseValue(ts0) ==
    LET ts == SkipWs(ts0)
        inner == SkipWs(Tail(ts))
    IN IF ts = <<>> THEN ParseFail
       ELSE IF Head(ts) \in NumberTokens
       THEN Parsed(IntVal(NumberOf(Head(ts))), Tail(ts))
       ELSE IF Head(ts) \in {"true", "false"}
       THEN Parsed(BoolVal(Head(ts) = "true"), Tail(ts))
       ELSE IF Head(ts) = "null" THEN Parsed(NullVal, Tail(ts))
       ELSE IF Head(ts) = QUOTE THEN ParseString(ts)
       ELSE IF Head(ts) = "["
       THEN IF StartsWith(inner, "]") THEN Parsed(ListVal(<<>>), Tail(inner))
            ELSE ParseElems(inner, <<>>)
       ELSE IF Head(ts) = "{"
       THEN IF StartsWith(inner, "}") THEN Parsed(DictVal(<<>>), Tail(inner))
            ELSE ParseMembers(inner, <<>>)
       ELSE ParseFail

ParseElems(ts, acc) ==
    LET v == ParseValue(ts)
        r == SkipWs(v.rest)
    IN IF ~v.ok \/ r = <<>> THEN ParseFail
       ELSE IF Head(r) = "]" THEN Parsed(ListVal(Append(acc, v.val)), Tail(r))
       ELSE IF Head(r) = "," THEN ParseElems(Tail(r), Append(acc, v.val))
       ELSE ParseFail

ParseMembers(ts, acc) ==
    LET k == ParseValue(ts)
        colon == SkipWs(k.rest)
        v == ParseValue(Tail(colon))
        r == SkipWs(v.rest)
        more == Append(acc, <<k.val.s, v.val>>)
    IN IF ~k.ok \/ k.val.t # "str" \/ ~StartsWith(colon, ":") THEN ParseFail
       ELSE IF ~v.ok \/ r = <<>> THEN ParseFail
       ELSE IF Head(r) = "}" THEN Parsed(DictVal(more), Tail(r))
       ELSE IF Head(r) = "," THEN ParseMembers(Tail(r), more)
       ELSE ParseFail

JsonLoads(text) ==
    LET r == ParseValue(text)
    IN IF r.ok /\ SkipWs(r.rest) = <<>> THEN [ok |-> TRUE, val |-> r.val]
       ELSE [ok |-> FALSE, val |-> NullVal]

\* dict.get: the value of the last member with the key, null when absent
DictGet(d, key) ==
    LET at == {i \in 1..Len(d.items) : d.items[i][1] = key}
    IN IF at = {} THEN NullVal ELSE d.items[Max(at)][2]

JsonErrorKeywords ==
    {<<"error">>, <<"invalid">>, <<"fail">>, <<"denied">>,
     <<"unauthorized">>, <<"forbidden">>}

HtmlErrorKeywords ==
    {<<"access", " ", "denied">>, <<"forbidden">>, <<"unauthorized">>,
     <<"not", " ", "found">>, <<"bad", " ", "request">>,
     <<"service", " ", "unavailable">>,
     <<"too", " ", "many", " ", "requests">>, <<"error", " ", "403">>,
     <<"error", " ", "404">>, <<"error", " ", "500">>}

\* a code check that rejects nothing
C24_CodeNeverRejected(parsed) == FALSE

\* is_valid: isinstance(code, int) and code not in (0, 200); a JSON boolean
\* is an int there
CodeRejected(parsed) ==
    LET code == DictGet(parsed, <<"code">>)
    IN code.t \in {"int", "bool"} /\ code.n \notin {0, 200}

\* is_valid: an error, err, message or msg string holding an error keyword
ErrorFieldRejected(parsed) ==
    \E key \in {<<"error">>, <<"err">>, <<"message">>, <<"msg">>} :
       LET val == DictGet(parsed, key)
       IN val.t = "str"
          /\ \E kw \in JsonErrorKeywords : Occurs(kw, Lower(val.s))

\* is_valid: the condition of the JSON branch and of the HTML branch
LooksLikeJson(contentType, text) ==
    \/ Occurs(<<"application/json">>, contentType)
    \/ StartsWith(text, "{") /\ EndsWith(text, "}")
    \/ StartsWith(text, "[") /\ EndsWith(text, "]")

LooksLikeHtml(contentType, text) ==
    \/ Occurs(<<"text/html">>, contentType)
    \/ Occurs(<<"<html">>, Lower(text))

\* is_valid from "text = self.raw_text.strip()" on, for a non-blank text
TextIsValid(contentType0, text) ==
    LET contentType == Lower(IF contentType0 = None THEN <<>>
                             ELSE contentType0)
        parsed == JsonLoads(text)
    IN IF LooksLikeJson(contentType, text)
       THEN IF ~parsed.ok THEN TRUE
            ELSE IF parsed.val.t # "dict" THEN TRUE
            ELSE ~CodeRejected(parsed.val) /\ ~ErrorFieldRejected(parsed.val)
       ELSE IF LooksLikeHtml(contentType, text)
       THEN ~\E k \in HtmlErrorKeywords : Occurs(k, Lower(text))
       ELSE TRUE

NoStatus == 0

\* a RequestResult with its content type
ResultOf(error, status, contentType, rawText, rawContent) ==
    [error |-> error, status |-> status, contentType |-> contentType,
     rawText |-> rawText, rawContent |-> rawContent]

\* RequestResult.is_valid
ResultIsValid(r) ==
    IF ~ResultOk(r) THEN FALSE
    ELSE IF r.status = NoStatus \/ ~(200 <= r.status /\ r.status < 300)
    THEN FALSE
    ELSE IF ResultIsBinary(r) THEN r.rawContent # <<>>
    ELSE IF Falsy(r.rawText) THEN FALSE
    ELSE IF Strip(r.rawText) = <<>> THEN FALSE
    ELSE TextIsValid(r.contentType, Strip(r.rawText))

\* the bodies, content types and statuses is_valid is applied to
Key(k) == <<QUOTE, k, QUOTE>>

BodyCode403Msg ==
    <<"{">> \o Key("code") \o <<":", "403", ",">> \o Key("msg")
        \o <<":", QUOTE, "forbidden", QUOTE, "}">>
BodyCode0Data ==
    <<"{">> \o Key("code") \o <<":", "0", ",">> \o Key("data")
        \o <<":", "[", "]", "}">>
BodyCode200Ok ==
    <<"{">> \o Key("code") \o <<":", "200", ",">> \o Key("msg")
        \o <<":", QUOTE, "ok", QUOTE, "}">>
BodyMsgDenied ==
    <<"{">> \o Key("msg") \o <<":", QUOTE, "Access", " ", "Denied", QUOTE, "}">>
BodyCodeString == <<"{">> \o Key("code") \o <<":", QUOTE, "403", QUOTE, "}">>
BodyCodeTrue == <<"{">> \o Key("code") \o <<":", "true", "}">>
BodyPadded == <<" ", "{">> \o Key("code") \o <<":", "403", "}", "LF">>
BodyList == <<"[", "403", "]">>
BodyHtml404 == <<"<html", ">", "404", " ", "Not", " ", "Found">>
BodyHtmlOk == <<"<HTML", ">", "hello">>
Body404 == <<"404", " ", "Not", " ", "Found">>
BodyBraces404 == <<"{", "404", " ", "Not", " ", "Found", "}">>
BodyOpenBrace == <<"{", "hello">>

Bodies ==
    {BodyCode403Msg, BodyCode0Data, BodyCode200Ok, BodyMsgDenied,
     BodyCodeString, BodyCodeTrue, BodyPadded, BodyList, BodyHtml404,
     BodyHtmlOk, Body404, BodyBraces404, BodyOpenBrace, <<"hello">>,
     <<" ", "LF">>, <<>>, None}

ContentTypes ==
    {None, <<>>, <<"application/json", ";", "charset=utf-8">>,
     <<"text/html">>, <<"Text/HTML">>, <<"text/plain">>}

Statuses == {NoStatus, 199, 200, 204, 299, 300, 404}

\* results with a text or no body at all, and results with bytes
Results ==
    {ResultOf(error, status, contentType, body, None) :
        error \in BOOLEAN, status \in Statuses, contentType \in ContentTypes,
        body \in Bodies}
    \cup {ResultOf(error, status, contentType, None, content) :
             error \in BOOLEAN, status \in Statuses,
             contentType \in {None, <<"image/png">>},
             content \in {<<>>, <<"b">>}}

InitValid == applied \in {Given(r) : r \in Results}

IsValidCall == Apply("is_valid", ResultIsValid(applied.arg))

NextValid == IsValidCall /\ PureFrame

\* the result is_valid was applied to: a 2xx result without error that
\* carries a text which is not blank
TextCase(r) ==
    /\ ~r.error /\ r.status \in 200..299
    /\ r.rawContent = None /\ ~Falsy(r.rawText) /\ Strip(r.rawText) # <<>>

TextOf(r) == IF Falsy(r.rawText) THEN <<>> ELSE Strip(r.rawText)

ContentTypeOf(r) ==
    IF r.contentType = None THEN <<>> ELSE Lower(r.contentType)

\* the body is a JSON object with an integer code outside {0, 200} or with
\* an error, err, message or msg string that contains an error keyword
JsonBodyReportsError(r) ==
    LET parsed == JsonLoads(TextOf(r))
    IN /\ parsed.ok /\ parsed.val.t = "dict"
       /\ \/ \E i \in 1..Len(parsed.val.items) :
                /\ parsed.val.items[i][1] = <<"code">>
                /\ i = Max({j \in 1..Len(parsed.val.items) :
                               parsed.val.items[j][1] = <<"code">>})
                /\ parsed.val.items[i][2].t = "int"
                /\ parsed.val.items[i][2].n \notin {0, 200}
          \/ \E i \in 1..Len(parsed.val.items) :
                /\ parsed.val.items[i][1]
                       \in {<<"error">>, <<"err">>, <<"message">>, <<"msg">>}
                /\ parsed.val.items[i][2].t = "str"
                /\ \E kw \in JsonErrorKeywords :
                      Occurs(kw, parsed.val.items[i][2].s)

NotFoundPhrase == <<"404", " ", "Not", " ", "Found">>

\* the parts of C24 other than the one on HTML bodies
C24_OtherParts(r, valid) ==
    /\ (TextCase(r) /\ JsonBodyReportsError(r)) => ~valid
    /\ (TextCase(r) /\ TextOf(r) = BodyCode0Data) => valid
    /\ (/\ TextCase(r)
        /\ ~LooksLikeJson(ContentTypeOf(r), TextOf(r))
        /\ ~LooksLikeHtml(ContentTypeOf(r), TextOf(r))) => valid
    /\ (\/ r.error
        \/ r.status \notin 200..299
        \/ r.rawContent = <<>>
        \/ r.rawContent = None /\ TextOf(r) = <<>>) => ~valid

C24_WitnessJson ==
    /\ applied.fn = "is_valid"
    /\ applied.arg.rawText = BodyCode403Msg /\ applied.arg.status = 200
    /\ ~applied.arg.error
    /\ ~applied.out

(***************************************************************************)
(* What match_entries hands out.  An object a caller holds is either the   *)
(* registry's own entry (ref is its position in entries) or a separate     *)
(* object (ref is NoRef); val is its value.  A caller may assign to the    *)
(* attributes of what it holds.                                            *)
(***************************************************************************)
NoRef == 0

\* handing out the registry's own object
C21_ShareEntry(es, i) == [ref |-> i, val |-> es[i]]

\* copy.deepcopy(entry): a separate object of equal value
DeepCopy(es, i) == [ref |-> NoRef, val |-> es[i]]

\* match_entries: the objects returned, in the order of the registry
RECURSIVE MatchedFrom(_, _, _, _, _)
MatchedFrom(es, i, text, caller, onlyEnabled) ==
    IF i > Len(es) THEN <<>>
    ELSE (IF /\ onlyEnabled => es[i].enabled
             /\ CheckActivate(es[i], text, caller)
          THEN <<DeepCopy(es, i)>> ELSE <<>>)
             \o MatchedFrom(es, i + 1, text, caller, onlyEnabled)

MatchEntriesObjects(es, text, caller, onlyEnabled) ==
    MatchedFrom(es, 1, text, caller, onlyEnabled)

\* the assignments a caller makes to an entry it holds
Mutations ==
    {[field |-> "enabled", value |-> FALSE],
     [field |-> "keywords", value |-> <<<<"x">>>>],
     [field |-> "scope", value |-> <<"g1">>]}

Assign(entry, m) ==
    CASE m.field = "enabled" -> [entry EXCEPT !.enabled = m.value]
      [] m.field = "keywords" -> [entry EXCEPT !.keywords = m.value]
      [] m.field = "scope" -> [entry EXCEPT !.scope = m.value]

\* the callers that hold entries: with and without the admin flag, in and
\* out of group g1
CopyCallers == {c \in Callers : c.userId = "" /\ c.sessionId = ""}

CopyFrame == UNCHANGED <<storeVars, concVars, batchVars, schedVars, siteVars, ctlVars>>

\* matched = match_entries(text, ...): the caller holds the result
CopyMatchEntries(text, caller, onlyEnabled) ==
    /\ applied' = [fn |-> "match_entries",
                   arg |-> <<text, caller, onlyEnabled>>,
                   out |-> MatchEntriesObjects(entries, text, caller,
                                               onlyEnabled)]
    /\ UNCHANGED regVars

\* the caller assigns to an attribute of the k-th entry it holds
CallerAssigns(k, m) ==
    /\ applied.fn \in {"match_entries", "assign"}
    /\ k \in 1..Len(applied.out)
    /\ applied' = [applied EXCEPT
                      !.fn = "assign",
                      !.out[k].val = Assign(applied.out[k].val, m)]
    /\ entries' = IF applied.out[k].ref = NoRef THEN entries
                  ELSE [entries EXCEPT
                           ![applied.out[k].ref] =
                               Assign(entries[applied.out[k].ref], m)]
    /\ UNCHANGED <<pool, dbPool, aliased, table, regLast>>

NextCopy ==
    \/ \E text \in MatchTexts, caller \in CopyCallers, onlyEnabled \in BOOLEAN :
          CopyMatchEntries(text, caller, onlyEnabled) /\ CopyFrame
    \/ \E k \in 1..MaxEntries, m \in Mutations :
          CallerAssigns(k, m) /\ CopyFrame

\* C21: the entries returned by match_entries are copies: an assignment a
\* caller makes to a returned entry leaves the registry's entries, the pool
\* rows and the result of every later match_entries call unchanged.
C21_ReturnedEntriesAreCopies ==
    [][applied'.fn = "assign"
       => /\ entries' = entries
          /\ pool' = pool
          /\ \A text \in MatchTexts, caller \in Callers,
                onlyEnabled \in BOOLEAN :
                MatchEntries(entries', text, caller, onlyEnabled)
                    = MatchEntries(entries, text, caller, onlyEnabled)]_vars

\* a caller disabled an entry it was given and gave it another keyword,
\* and the registry's entry of that name is enabled and still matches
C21_Witness ==
    /\ applied.fn = "assign"
    /\ \E k \in 1..Len(applied.out), i \in 1..Len(entries) :
          /\ entries[i].name = applied.out[k].val.name
          /\ entries[i].enabled /\ ~applied.out[k].val.enabled
          /\ applied.out[k].val.keywords = <<<<"x">>>>
          /\ entries[i].keywords # <<<<"x">>>>
          /\ pool[i] = ToDict(entries[i])

(***************************************************************************)
(* add_entries on payloads as they arrive: every field is a JSON value,    *)
(* null when the payload lacks it.                                         *)
(***************************************************************************)
\* str(value) of a JSON value that is a string or a number
StrOf(v) ==
    IF v.t = "str" THEN v.s
    ELSE IF v.t = "int" THEN <<ToString(v.n)>>
    ELSE <<v.t>>

\* FieldCaster.to_bool
ToBool(v, default) ==
    IF v.t = "null" THEN default
    ELSE IF v.t = "bool" THEN v.n = 1
    ELSE IF v.t = "str"
    THEN LET lowered == Lower(Strip(v.s))
         IN IF lowered \in {<<"1">>, <<"true">>, <<"yes">>, <<"on">>}
            THEN TRUE
            ELSE IF lowered \in {<<"0">>, <<"false">>, <<"no">>, <<"off">>,
                                 <<>>}
            THEN FALSE
            ELSE v.s # <<>>
    ELSE IF v.t = "int" THEN v.n # 0
    ELSE v.items # <<>>

\* FieldCaster.to_str_list
ToStrList(v) ==
    IF v.t = "list"
    THEN LET texts == [i \in 1..Len(v.items) |-> Strip(StrOf(v.items[i]))]
         IN SelectSeq(texts, LAMBDA t : t # <<>>)
    ELSE IF v.t = "str" /\ Strip(v.s) # <<>> THEN <<Strip(v.s)>>
    ELSE <<>>

\* FieldCaster.to_dict: the members of an object, {} for anything else
ToDictOf(v) == IF v.t = "dict" THEN v.items ELSE <<>>

\* FieldCaster.normalize_name
NormalizeName(v) ==
    IF v.t = "null" \/ (v.t = "int" /\ v.n = 0) THEN <<>>
    ELSE Strip(StrOf(v))

\* ApiPayload.from_raw, the casts of the fields
CastPayload(raw) ==
    [name |-> NormalizeName(raw.name), url |-> NormalizeName(raw.url),
     enabled |-> ToBool(raw.enabled, TRUE),
     valid |-> ToBool(raw.valid, TRUE),
     scope |-> ToStrList(raw.scope), keywords |-> ToStrList(raw.keywords),
     cron |-> <<>>, params |-> ToDictOf(raw.params),
     site |-> NormalizeName(raw.site)]

\* add_entries(payloads) on payloads as they arrive
AddRawEntries(reg, raws, save, dbFail) ==
    AddEntries(reg, [i \in 1..Len(raws) |-> CastPayload(raws[i])], save,
               dbFail)

RawPayload(name, enabled, valid, scope, keywords, params, site) ==
    [name |-> name, url |-> StrVal(<<"s1", "p">>), enabled |-> enabled,
     valid |-> valid, scope |-> scope, keywords |-> keywords,
     params |-> params, site |-> site]

RawPayloads ==
    {RawPayload(StrVal(<<"a">>), NullVal, NullVal, NullVal, NullVal,
                NullVal, NullVal),
     RawPayload(StrVal(<<"a">>), StrVal(<<"false">>), StrVal(<<"0">>),
                StrVal(<<"g1">>), StrVal(<<"kw">>),
                ListVal(<<StrVal(<<"invalid">>)>>), NullVal),
     RawPayload(StrVal(<<" ", "b">>), StrVal(<<"False">>), BoolVal(TRUE),
                ListVal(<<StrVal(<<"g1", " ">>), StrVal(<<" ">>)>>),
                ListVal(<<StrVal(<<"a">>), StrVal(<<"b">>)>>),
                DictVal(<<<<<<"k">>, IntVal(0)>>>>), StrVal(<<"s1">>)),
     RawPayload(StrVal(<<"b">>), StrVal(<<"yes">>), IntVal(0), StrVal(<<" ">>),
                StrVal(<<>>), StrVal(<<"x">>), NullVal),
     RawPayload(NullVal, BoolVal(FALSE), StrVal(<<"x">>), NullVal, NullVal,
                NullVal, NullVal)}

RawLists ==
    {<<r>> : r \in RawPayloads} \cup {<<r, q>> : r, q \in RawPayloads}

\* a registry that is empty or holds the entry a
InitAddReg ==
    /\ entries \in {<<>>, <<APIEntry(CastPayload(
                                CHOOSE r \in RawPayloads :
                                    r.name = StrVal(<<"a">>)
                                        /\ r.enabled = NullVal))>>}
    /\ pool = entries
    /\ dbPool = pool
    /\ aliased = TRUE
    /\ table = [i \in 1..Len(entries) |-> ToDict(entries[i])]
    /\ regLast = RegLastInit

InitAdd == applied \in {Given(raws) : raws \in RawLists}

\* add_entries(payloads, save=save)
AddEntriesCall(save) ==
    \E r \in {AddRawEntries(TheReg, applied.arg, save, FALSE)} :
       /\ Apply("add_entries",
                [raised |-> r.raised, before |-> Len(entries)])
       /\ SetReg(r.reg)
       /\ UNCHANGED <<regLast, schedVars>>

NextAdd ==
    \E save \in BOOLEAN : AddEntriesCall(save) /\ CopyFrame

\* what C26 says of one payload, the entry created for it and its pool row
Normalized(raw, entry, row) ==
    /\ raw.enabled = NullVal => entry.enabled
    /\ raw.valid = NullVal => entry.valid
    /\ raw.enabled \in {StrVal(<<"false">>), StrVal(<<"0">>)}
           => ~entry.enabled
    /\ raw.valid \in {StrVal(<<"false">>), StrVal(<<"0">>)} => ~entry.valid
    /\ (raw.scope.t = "str" /\ Strip(raw.scope.s) # <<>>)
           => entry.scope = <<Strip(raw.scope.s)>>
    /\ (raw.keywords.t = "str" /\ Strip(raw.keywords.s) # <<>>)
           => entry.keywords = <<Strip(raw.keywords.s)>>
    /\ raw.params.t # "dict" => entry.params = <<>>
    /\ raw.site = NullVal => entry.site = <<>>
    /\ raw.keywords = NullVal => entry.keywords = <<entry.name>>
    /\ row = entry

\* C26: add_entries normalizes loosely typed payload fields: enabled and
\* valid default to true and take "false" and "0" as false; scope and
\* keywords given as one string become a one-element list; params that is
\* not an object becomes {}; site defaults to the empty string; an entry
\* added without keywords gets the one-element list holding the name it is
\* registered under; the pool row carries the same values.
C26_PayloadNormalized ==
    (applied.fn = "add_entries" /\ applied.out.raised = "none")
        => \A i \in 1..Len(applied.arg) :
              Normalized(applied.arg[i], entries[applied.out.before + i],
                         pool[applied.out.before + i])

(***************************************************************************)
(* PoolIOService: the import of a pool file and the export of a pool.  A   *)
(* pool file is a text of JSON tokens.                                     *)
(***************************************************************************)
\* _normalize_pool_type
NormalizePoolType(poolType) ==
    IF poolType \in {"site", "sites", "site_pool"} THEN "site"
    ELSE IF poolType \in {"api", "apis", "api_pool"} THEN "api"
    ELSE "ValueError"

\* _parse_import_bytes: the object rows of the file; ok is FALSE where it
\* raises ValueError
ParseImportBytes(raw) ==
    LET parsed == JsonLoads(raw)
    IN IF ~parsed.ok \/ parsed.val.t # "list"
       THEN [ok |-> FALSE, rows |-> <<>>]
       ELSE [ok |-> TRUE,
             rows |-> SelectSeq(parsed.val.items, LAMBDA v : v.t = "dict")]

\* the fields ApiPayload.from_raw reads from a row with data.get
RawOfRow(row) ==
    [name |-> DictGet(row, <<"name">>), url |-> DictGet(row, <<"url">>),
     enabled |-> DictGet(row, <<"enabled">>),
     valid |-> DictGet(row, <<"valid">>), scope |-> DictGet(row, <<"scope">>),
     keywords |-> DictGet(row, <<"keywords">>),
     params |-> DictGet(row, <<"params">>), site |-> DictGet(row, <<"site">>)]

HasKey(d, key) == \E i \in 1..Len(d.items) : d.items[i][1] = key

\* int(data.get("timeout", 60)): ok is FALSE where int() raises
IntOfTimeout(row) ==
    LET v == DictGet(row, <<"timeout">>)
    IN IF ~HasKey(row, <<"timeout">>) THEN [ok |-> TRUE, n |-> 60]
       ELSE IF v.t \in {"int", "bool"} THEN [ok |-> TRUE, n |-> v.n]
       ELSE IF v.t = "str" /\ Len(Strip(v.s)) = 1
                  /\ Strip(v.s)[1] \in NumberTokens
       THEN [ok |-> TRUE, n |-> NumberOf(Strip(v.s)[1])]
       ELSE [ok |-> FALSE, n |-> 0]

\* SitePayload.from_raw(row, require_name=True, require_url=True): TRUE
\* when it raises
SiteFromRawRaises(row) ==
    \/ NormalizeName(DictGet(row, <<"name">>)) = <<>>
    \/ NormalizeName(DictGet(row, <<"url">>)) = <<>>
    \/ ~IntOfTimeout(row).ok

\* SitePayload.from_raw(...).to_dict()
SiteFromRaw(row) ==
    [name |-> NormalizeName(DictGet(row, <<"name">>)),
     url |-> NormalizeName(DictGet(row, <<"url">>)),
     enabled |-> ToBool(DictGet(row, <<"enabled">>), TRUE),
     headers |-> ToDictOf(DictGet(row, <<"headers">>)),
     keys |-> ToDictOf(DictGet(row, <<"keys">>)),
     timeout |-> IntOfTimeout(row).n]

\* the names of a pool's rows that are not blank
ExistingNames(rows) ==
    {Strip(rows[i].name) : i \in 1..Len(rows)} \ {<<>>}

ApiRowRaises(row) == FromRawRaises(CastPayload(RawOfRow(row)))
ApiRowCast(row) == FromRaw(CastPayload(RawOfRow(row)))

\* from_raw of the pool type on a row: whether it raises, and its to_dict()
RowRaises(safeType, row) ==
    IF safeType = "site" THEN SiteFromRawRaises(row) ELSE ApiRowRaises(row)

RowCast(safeType, row) ==
    IF safeType = "site" THEN SiteFromRaw(row) ELSE ApiRowCast(row)

\* import_pool_from_bytes, the loop over the rows: the rows accepted and the
\* counts
RECURSIVE ImportLoop(_, _, _, _, _, _)
ImportLoop(rows, safeType, names, accepted, skipped, failed) ==
    IF rows = <<>>
    THEN [accepted |-> accepted, skipped |-> skipped, failed |-> failed]
    ELSE IF RowRaises(safeType, Head(rows))
    THEN ImportLoop(Tail(rows), safeType, names, accepted, skipped,
                    failed + 1)
    ELSE IF RowCast(safeType, Head(rows)).name \in names
    THEN ImportLoop(Tail(rows), safeType, names, accepted, skipped + 1,
                    failed)
    ELSE ImportLoop(Tail(rows), safeType,
                    names \cup {RowCast(safeType, Head(rows)).name},
                    Append(accepted, RowCast(safeType, Head(rows))), skipped,
                    failed)

ImportResult(raised, imported, loop) ==
    [raised |-> raised, imported |-> imported, skipped |-> loop.skipped,
     failed |-> loop.failed]

\* import_pool_from_bytes("api", raw)
ImportApiPool(reg, raw, dbFail) ==
    LET file == ParseImportBytes(raw)
        loop == ImportLoop(file.rows, "api", ExistingNames(reg.dbPool),
                           <<>>, 0, 0)
        added == AddEntries(reg, loop.accepted, FALSE, FALSE)
        created == SubSeq(added.reg.entries, Len(reg.entries) + 1,
                          Len(added.reg.entries))
        saved == BatchUpdateApiPool(added.reg,
                                    [i \in 1..Len(created) |->
                                        ToDict(created[i])],
                                    <<>>, dbFail)
    IN IF ~file.ok
       THEN [reg |-> reg, out |-> ImportResult("ValueError", 0, loop)]
       ELSE IF loop.accepted = <<>>
       THEN [reg |-> reg, out |-> ImportResult("none", 0, loop)]
       ELSE [reg |-> saved.reg,
             out |-> ImportResult(saved.raised, Len(created), loop)]

\* SiteEntryManager.add_entries(payloads, save=False): each entry under a
\* name no entry has yet
RECURSIVE SiteAddLoop(_, _)
SiteAddLoop(es, payloads) ==
    IF payloads = <<>> THEN es
    ELSE SiteAddLoop(
             Append(es, [Head(payloads) EXCEPT
                            !.name = ResolveUniqueName(es, @)]),
             Tail(payloads))

\* import_pool_from_bytes("site", raw); the created entries are upserted
\* into db.site_pool
ImportSitePool(es, rows, raw) ==
    LET file == ParseImportBytes(raw)
        loop == ImportLoop(file.rows, "site", ExistingNames(rows), <<>>,
                           0, 0)
        added == SiteAddLoop(es, loop.accepted)
        created == SubSeq(added, Len(es) + 1, Len(added))
    IN IF ~file.ok
       THEN [entries |-> es, pool |-> rows,
             out |-> ImportResult("ValueError", 0, loop)]
       ELSE [entries |-> added,
             pool |-> ApplyPoolBatch(rows, created, <<>>).pool,
             out |-> ImportResult("none", Len(created), loop)]

Without(row, fields) == [k \in DOMAIN row \ fields |-> row[k]]

C27_KeepRow(row) == row

\* _sanitize_site_row
SanitizeSiteRow(row) == Without(row, {"enabled"})

\* _sanitize_api_row
SanitizeApiRow(row) == Without(row, {"enabled", "valid", "site"})

\* _build_export_rows(pool_type, rows=None)
BuildExportRows(safeType, apiRows, siteRows) ==
    IF safeType = "site"
    THEN [i \in 1..Len(siteRows) |-> SanitizeSiteRow(siteRows[i])]
    ELSE [i \in 1..Len(apiRows) |-> SanitizeApiRow(apiRows[i])]

\* the texts of pool files
Member(k, value) == Key(k) \o <<":">> \o value
Quoted(s) == <<QUOTE>> \o s \o <<QUOTE>>
UrlMember == Member("url", Quoted(<<"s1", "p">>))
NamedRow(name) ==
    <<"{">> \o Member("name", Quoted(name)) \o <<",">> \o UrlMember \o <<"}">>

FileRows ==
    {NamedRow(<<"a">>), NamedRow(<<"b", " ">>),
     <<"{">> \o Member("name", Quoted(<<"c">>)) \o <<"}">>,
     <<"{">> \o UrlMember \o <<"}">>,
     <<"{">> \o Member("name", Quoted(<<"c">>)) \o <<",">> \o UrlMember
         \o <<",">> \o Member("timeout", Quoted(<<"fast">>)) \o <<"}">>,
     <<"{">> \o Member("name", Quoted(<<"b">>)) \o <<",">> \o UrlMember
         \o <<",">> \o Member("timeout", <<"200">>) \o <<",">>
         \o Member("enabled", <<"false">>) \o <<"}">>,
     <<"403">>}

PoolFiles ==
    {<<"[">> \o r \o <<"]">> : r \in FileRows}
        \cup {<<"[">> \o r \o <<",">> \o q \o <<"]">> : r, q \in FileRows}
        \cup {BodyCode0Data, BodyOpenBrace}

PoolTypes == {"api", "site", "pool"}

EntryA ==
    APIEntry(FromRaw(CastPayload(RawOfRow(
        JsonLoads(NamedRow(<<"a">>)).val))))

SiteS ==
    [name |-> <<"s">>, url |-> <<"s1">>, enabled |-> FALSE,
     headers |-> <<>>, keys |-> <<>>, timeout |-> 30]

\* the registries hold nothing, or the entry a and the site s; applied holds
\* the pool type and the file of the calls to come
InitIo ==
    /\ entries \in {<<>>, <<EntryA>>}
    /\ pool = [i \in 1..Len(entries) |-> ToDict(entries[i])]
    /\ dbPool = pool
    /\ aliased = TRUE
    /\ table = pool
    /\ regLast = RegLastInit
    /\ siteMgrEntries \in {<<>>, <<SiteS>>}
    /\ sitePool = siteMgrEntries
    /\ applied \in {Given(<<poolType, raw>>) :
                       poolType \in PoolTypes, raw \in PoolFiles}

IoFrame == UNCHANGED <<storeVars, concVars, batchVars, schedVars, ctlVars>>

IoStep ==
    /\ regLast.steps < MaxIoOps
    /\ regLast' = [regLast EXCEPT !.steps = @ + 1]

IoReturns(fn, out) ==
    applied' = [fn |-> fn, arg |-> applied.arg, out |-> out]

\* api_mgr.add_entries([payload], save=False)
IoAddEntries(raw) ==
    /\ IoStep
    /\ SetReg(AddRawEntries(TheReg, <<raw>>, FALSE, FALSE).reg)
    /\ UNCHANGED <<siteVars, applied>>

\* db.reload_from_database()
IoReload ==
    /\ IoStep
    /\ SetReg(ReloadFromDatabase(TheReg))
    /\ UNCHANGED <<siteVars, applied>>

\* import_pool_from_bytes(pool_type, raw)
IoImport(poolType, raw, dbFail) ==
    /\ IoStep
    /\ applied.fn = "given"
    /\ \E safeType \in {NormalizePoolType(poolType)} :
          \/ /\ safeType = "ValueError"
             /\ ~dbFail
             /\ IoReturns("import", [raised |-> "ValueError"])
             /\ UNCHANGED <<entries, pool, dbPool, aliased, table, siteVars>>
          \/ /\ safeType = "api"
             /\ \E r \in {ImportApiPool(TheReg, raw, dbFail)} :
                   /\ IoReturns("import", r.out)
                   /\ SetReg(r.reg)
             /\ UNCHANGED siteVars
          \/ /\ safeType = "site"
             /\ ~dbFail
             /\ \E r \in {ImportSitePool(siteMgrEntries, sitePool, raw)} :
                   /\ IoReturns("import", r.out)
                   /\ siteMgrEntries' = r.entries
                   /\ sitePool' = r.pool
             /\ UNCHANGED <<entries, pool, dbPool, aliased, table>>

\* export_pool_to_file(pool_type): out.rows is the list written to the file
IoExport(poolType) ==
    /\ IoStep
    /\ applied.fn \in {"given", "import"}
    /\ \E safeType \in {NormalizePoolType(poolType)} :
          IoReturns("export",
                    IF safeType = "ValueError"
                    THEN [raised |-> "ValueError", rows |-> <<>>]
                    ELSE [raised |-> "none",
                          rows |-> BuildExportRows(safeType, dbPool,
                                                   sitePool)])
    /\ UNCHANGED <<entries, pool, dbPool, aliased, table, siteVars>>

NextIo ==
    \/ \E raw \in {r \in RawPayloads : r.name = StrVal(<<"a">>)} :
          IoAddEntries(raw) /\ IoFrame
    \/ IoReload /\ IoFrame
    \/ \E dbFail \in BOOLEAN :
          IoImport(applied.arg[1], applied.arg[2], dbFail) /\ IoFrame
    \/ IoExport(applied.arg[1]) /\ IoFrame

\* the name and the url a row of a pool file gives
RowName(row) == NormalizeName(DictGet(row, <<"name">>))
RowUrl(row) == NormalizeName(DictGet(row, <<"url">>))

\* what C25 says becomes of each row, in the order of the file
RECURSIVE RowFates(_, _)
RowFates(rows, names) ==
    IF rows = <<>> THEN <<>>
    ELSE IF RowName(Head(rows)) = <<>> \/ RowUrl(Head(rows)) = <<>>
    THEN <<"failed">> \o RowFates(Tail(rows), names)
    ELSE IF RowName(Head(rows)) \in names
    THEN <<"skipped">> \o RowFates(Tail(rows), names)
    ELSE <<"imported">>
             \o RowFates(Tail(rows), names \cup {RowName(Head(rows))})

CountOf(fates, fate) == Cardinality({i \in 1..Len(fates) : fates[i] = fate})

ImportReturned ==
    applied.fn = "given" /\ applied'.fn = "import"
        /\ applied'.out.raised = "none"

ImportAgrees(rows, old, new, out) ==
    LET fates == RowFates(rows, ExistingNames(old))
    IN /\ out.imported = CountOf(fates, "imported")
       /\ out.skipped = CountOf(fates, "skipped")
       /\ out.failed = CountOf(fates, "failed")
       /\ SubSeq(new, 1, Len(old)) = old
       /\ \A i \in 1..Len(rows) :
              fates[i] = "imported"
                  => RowName(rows[i]) \in NamesOf(new) \ NamesOf(old)

\* C25: import_pool_from_bytes counts every object row of the file in
\* exactly one of imported, skipped and failed: a row whose name is in the
\* pool or came earlier in the file is skipped and the pool's rows stay as
\* they are, a row without a name or without a url is failed, every other
\* row becomes a new pool entry under its own name.
C25_RowsCounted ==
    [][ImportReturned
           => IF NormalizePoolType(applied.arg[1]) = "api"
              THEN ImportAgrees(ParseImportBytes(applied.arg[2]).rows,
                                dbPool, dbPool', applied'.out)
              ELSE ImportAgrees(ParseImportBytes(applied.arg[2]).rows,
                                sitePool, sitePool', applied'.out)]_vars

\* C27: export_pool_to_file writes one row per pool row, without enabled
\* for a site row and without enabled, valid and site for an api row, every
\* other field unchanged; the export leaves the pools as they are.
C27_ExportStripsRuntimeFields ==
    [][(applied'.fn = "export" /\ applied.fn # "export"
            /\ applied'.out.raised = "none")
           => LET site == NormalizePoolType(applied.arg[1]) = "site"
                  rows == IF site THEN sitePool ELSE dbPool
                  gone == IF site THEN {"enabled"}
                          ELSE {"enabled", "valid", "site"}
                  out == applied'.out.rows
              IN /\ Len(out) = Len(rows)
                 /\ \A i \in 1..Len(rows) :
                        /\ DOMAIN out[i] = DOMAIN rows[i] \ gone
                        /\ \A k \in DOMAIN out[i] : out[i][k] = rows[i][k]
                 /\ UNCHANGED <<entries, pool, dbPool, table, siteVars>>]_vars

\* an export has written the rows of a pool of two api entries, one of them
\* imported
C27_Witness ==
    /\ applied.fn = "export"
    /\ applied.out.raised = "none"
    /\ NormalizePoolType(applied.arg[1]) = "api"
    /\ Len(applied.out.rows) = 2
    /\ Len(dbPool) = 2
    /\ \A i \in 1..2 : "enabled" \in DOMAIN dbPool[i]
                          /\ "name" \in DOMAIN applied.out.rows[i]

(***************************************************************************)
(* The lock table of the store (LocalDataService._get_dataset_lock).  A    *)
(* lock object is the number it was made as; NoLock is the None that       *)
(* dict.get returns.  The call is taken in three steps: the lookup without *)
(* the guard, "async with self._locks_guard", and the guarded lookup with  *)
(* the store.  The event loop never switches tasks between them while the  *)
(* guard is free; these steps allow every interleaving it allows and more. *)
(***************************************************************************)
NoLock == 0

IdleLockCall ==
    [pc |-> "idle", key |-> <<"text", <<"x">>>>, got |-> NoLock,
     guarded |-> FALSE]

InitLocks ==
    lockCalls = [locks |-> [k \in ConcKeys |-> NoLock], guard |-> NoTask,
                 made |-> 0, calls |-> 0,
                 callers |-> [t \in Tasks |-> IdleLockCall]]

\* a guarded lookup that finds nothing
C34_GuardedLookupBlind(locks, key) == NoLock

\* the lookup under the guard: self._dataset_locks.get(key)
GuardedLookup(locks, key) == locks[key]

\* _get_dataset_lock up to the guard: the lock of the key is returned when
\* there is one
GetDatasetLock(t, key) ==
    LET existing == lockCalls.locks[key]
    IN /\ lockCalls.callers[t].pc \in {"idle", "returned"}
       /\ lockCalls.calls < MaxLockCalls
       /\ lockCalls' =
              [lockCalls EXCEPT
                  !.calls = @ + 1,
                  !.callers[t] =
                      IF existing # NoLock
                      THEN [pc |-> "returned", key |-> key, got |-> existing,
                            guarded |-> FALSE]
                      ELSE [pc |-> "entering", key |-> key, got |-> NoLock,
                            guarded |-> TRUE]]

\* "async with self._locks_guard": entered when the guard is free
GuardEnter(t) ==
    /\ lockCalls.callers[t].pc = "entering"
    /\ LockFree(lockCalls.guard)
    /\ lockCalls' = [lockCalls EXCEPT !.guard = t,
                                      !.callers[t].pc = "inGuard"]

\* under the guard: the lock of the key is looked up again, made and
\* stored when there is none, and returned; the guard is handed back
GuardedCreate(t) ==
    LET key == lockCalls.callers[t].key
        lock == GuardedLookup(lockCalls.locks, key)
        new == lockCalls.made + 1
    IN /\ lockCalls.callers[t].pc = "inGuard"
       /\ lockCalls' =
              IF lock = NoLock
              THEN [lockCalls EXCEPT
                       !.made = new, !.locks[key] = new, !.guard = NoTask,
                       !.callers[t] = [pc |-> "returned", key |-> key,
                                       got |-> new, guarded |-> TRUE]]
              ELSE [lockCalls EXCEPT
                       !.guard = NoTask,
                       !.callers[t] = [pc |-> "returned", key |-> key,
                                       got |-> lock, guarded |-> TRUE]]

LockTableFrame ==
    UNCHANGED <<storeVars, concVars, regVars, batchVars, schedVars, siteVars,
                restart, pureVars>>

NextLocks ==
    \/ \E t \in Tasks, key \in ConcKeys :
          GetDatasetLock(t, key) /\ LockTableFrame
    \/ \E t \in Tasks : GuardEnter(t) /\ LockTableFrame
    \/ \E t \in Tasks : GuardedCreate(t) /\ LockTableFrame

\* every caller that has returned holds the lock stored for its key, and
\* the locks stored for two keys are two objects
OneLockPerKey ==
    /\ \A t \in Tasks :
          lockCalls.callers[t].pc = "returned"
              => /\ lockCalls.callers[t].got # NoLock
                 /\ lockCalls.callers[t].got
                        = lockCalls.locks[lockCalls.callers[t].key]
    /\ \A k1, k2 \in ConcKeys :
          (k1 # k2 /\ lockCalls.locks[k1] # NoLock)
              => lockCalls.locks[k1] # lockCalls.locks[k2]

\* C34: every caller of _get_dataset_lock for a key is given the one lock
\* of the key, also the callers that all found no lock on their first
\* lookup; a lock stored for a key is never replaced, and the locks of
\* different keys are different objects.
C34_SameLockPerKey ==
    /\ []OneLockPerKey
    /\ [][\A k \in ConcKeys :
             lockCalls.locks[k] # NoLock
                 => lockCalls'.locks[k] = lockCalls.locks[k]]_vars

\* three callers found no lock for one key on their first lookup and went
\* through the guard one after the other: one lock was made, all three
\* hold it
C34_Witness ==
    /\ \A t \in Tasks :
          /\ lockCalls.callers[t].pc = "returned"
          /\ lockCalls.callers[t].guarded
          /\ lockCalls.callers[t].key = <<"text", <<"x">>>>
          /\ lockCalls.callers[t].got = 1
    /\ lockCalls.calls = 3
    /\ lockCalls.made = 1

(***************************************************************************)
(* Process restarts (RuntimeControlService.restart_process_async).  A call *)
(* returns at once and leaves a task behind; the task takes the lock when  *)
(* the event loop first runs it, sleeps, awaits the handler and hands the  *)
(* lock back.  A task is named by its place in the list of tasks made.     *)
(***************************************************************************)
\* RuntimeControlService.__init__, with a handler or without
RestartService(handler) ==
    [handler |-> handler, lock |-> NoTask, tasks |-> <<>>, calls |-> 0,
     raised |-> "none", invoked |-> 0]

InitRestart == restart \in {RestartService(h) : h \in BOOLEAN}

InitCtl == InitLocks /\ restart = RestartService(TRUE)

\* restart_process_async: refused without a handler and while the lock is
\* held; otherwise the task of _run is made
RestartProcessAsync ==
    /\ restart.calls < MaxRestarts
    /\ restart' =
           IF ~restart.handler
           THEN [restart EXCEPT !.calls = @ + 1,
                                !.raised = "RestartUnavailableError"]
           ELSE IF ~LockFree(restart.lock)
           THEN [restart EXCEPT !.calls = @ + 1,
                                !.raised = "RestartInProgressError"]
           ELSE [restart EXCEPT !.calls = @ + 1, !.raised = "none",
                                !.tasks = Append(@, "created")]

\* _run: "async with self._process_restart_lock" is entered
RunAcquire(i) ==
    /\ restart.tasks[i] = "created"
    /\ LockFree(restart.lock)
    /\ restart' = [restart EXCEPT !.lock = i, !.tasks[i] = "sleeping"]

\* _run: the delay is over, the handler is called
RunHandler(i) ==
    /\ restart.tasks[i] = "sleeping"
    /\ restart' = [restart EXCEPT !.tasks[i] = "handling",
                                  !.invoked = @ + 1]

\* _run: the handler has returned or raised; the lock is handed back
RunEnds(i) ==
    /\ restart.tasks[i] = "handling"
    /\ restart' = [restart EXCEPT !.tasks[i] = "finished",
                                  !.lock = NoTask]

RestartFrame ==
    UNCHANGED <<storeVars, concVars, regVars, batchVars, schedVars, siteVars,
                lockCalls, pureVars>>

NextRestart ==
    \/ RestartProcessAsync /\ RestartFrame
    \/ \E i \in DOMAIN restart.tasks : RunAcquire(i) /\ RestartFrame
    \/ \E i \in DOMAIN restart.tasks : RunHandler(i) /\ RestartFrame
    \/ \E i \in DOMAIN restart.tasks : RunEnds(i) /\ RestartFrame

\* the accepted restarts that have not finished
PendingRestarts ==
    {i \in DOMAIN restart.tasks : restart.tasks[i] # "finished"}

\* C38: at most one process restart is pending or running, and a call made
\* while an accepted restart has not finished raises
\* RestartInProgressError.
C38_OneRestartPending ==
    /\ []((Cardinality(PendingRestarts) <= 1))
    /\ [][(restart'.calls = restart.calls + 1 /\ PendingRestarts # {})
             => restart'.raised = "RestartInProgressError"]_vars

(***************************************************************************)
(* Sites and API entries.  A URL is the sequence of its parts, and one URL *)
(* starts with another when that one is a prefix of it.  A dict of headers *)
(* or keys is the sequence of its (key, value) pairs.                      *)
(***************************************************************************)
DEFAULT_TIMEOUT == 60

DefaultHeaders == << <<"User-Agent", "ua">> >>

\* a site whose headers, keys and timeout tell it from every other
SiteEntry(name, url, enabled, timeout) ==
    [name |-> name, url |-> url, enabled |-> enabled,
     headers |-> << <<"X-Site", name>> >>, keys |-> << <<"key", name>> >>,
     timeout |-> timeout]

\* SiteEntry.is_vested: full_url.startswith(self.url)
IsVested(site, fullUrl) ==
    /\ Len(site.url) <= Len(fullUrl)
    /\ SubSeq(fullUrl, 1, Len(site.url)) = site.url

\* match_entry: the candidates, as their places in self.entries
Candidates(sites, onlyEnabled) ==
    {i \in DOMAIN sites : ~onlyEnabled \/ sites[i].enabled}

\* match_entry: the place of the first candidate the URL is vested in, 0
\* for None
MatchEntry(sites, fullUrl, onlyEnabled) ==
    LET vested == {i \in Candidates(sites, onlyEnabled) :
                      IsVested(sites[i], fullUrl)}
    IN IF vested = {} THEN 0
       ELSE CHOOSE i \in vested : \A j \in vested : i <= j

\* resolve_api_site_name
ResolveApiSiteName(sites, url) ==
    LET fullUrl == Strip(url)
        site == MatchEntry(sites, fullUrl, FALSE)
    IN IF fullUrl = <<>> THEN <<>>
       ELSE IF site = 0 THEN <<>> ELSE sites[site].name

\* dict.update on sequences of pairs
PairsUpdate(d, more) ==
    SelectSeq(d, LAMBDA p : \A i \in 1..Len(more) : more[i][1] # p[1])
        \o more

\* the request arguments made from a site (0: no site) for an entry
RequestArgs(sites, site, entry) ==
    LET keys == IF site = 0 THEN <<>> ELSE sites[site].keys
    IN [headers |-> PairsUpdate(IF site = 0 THEN DefaultHeaders
                                ELSE sites[site].headers, keys),
        params |-> PairsUpdate(PairsUpdate(entry.params,
                                           entry.updatedParams), keys),
        timeout |-> IF site = 0 THEN DEFAULT_TIMEOUT
                    ELSE sites[site].timeout]

\* _build_request_args
BuildRequestArgs(sites, entry) ==
    RequestArgs(sites, MatchEntry(sites, entry.url, TRUE), entry)

SiteUrls == {<<"s1">>, <<"s1", "p">>, <<"s2">>}

EntryUrls == {<<"s1", "p", "q">>, <<"s1", "r">>, <<"s2">>, <<"s3">>}

\* the sites a manager holds: none, one, or two with different names, in
\* either order, each enabled or not
SiteLists ==
    LET D(url, on) == SiteEntry(<<"d">>, url, on, 5)
        E(url, on) == SiteEntry(<<"e">>, url, on, 7)
    IN {<<>>}
       \cup {<<D(u, on)>> : u \in SiteUrls, on \in BOOLEAN}
       \cup {<<D(u, on), E(v, en)>> :
                 u \in SiteUrls, v \in SiteUrls, on \in BOOLEAN,
                 en \in BOOLEAN}
       \cup {<<E(v, en), D(u, on)>> :
                 u \in SiteUrls, v \in SiteUrls, on \in BOOLEAN,
                 en \in BOOLEAN}

InitSites ==
    /\ siteMgrEntries \in SiteLists
    /\ sitePool = siteMgrEntries

\* the entry of a URL, as far as a request looks at it
UrlEntry(url) ==
    [url |-> url, params |-> << <<"page", "1">> >>, updatedParams |-> <<>>]

\* the site field of an entry is resolved
SiteResolve(url) ==
    /\ applied' = [fn |-> "resolve", arg |-> url,
                   out |-> ResolveApiSiteName(siteMgrEntries, url)]
    /\ UNCHANGED siteVars

\* the arguments of a request of the entry are built
SiteBuildArgs(url) ==
    /\ applied' = [fn |-> "build", arg |-> url,
                   out |-> BuildRequestArgs(siteMgrEntries, UrlEntry(url))]
    /\ UNCHANGED siteVars

SitesFrame ==
    UNCHANGED <<storeVars, concVars, regVars, batchVars, schedVars, ctlVars>>

NextSites ==
    \/ \E url \in EntryUrls : SiteResolve(url) /\ SitesFrame
    \/ \E url \in EntryUrls : SiteBuildArgs(url) /\ SitesFrame

\* the place of the site of a name, 0 for the empty name
SiteNamed(sites, name) ==
    IF \E i \in DOMAIN sites : sites[i].name = name
    THEN CHOOSE i \in DOMAIN sites : sites[i].name = name
    ELSE 0

\* C39: the site whose headers, keys and timeout a request of an entry is
\* built with is the site whose name is resolved for the entry's site
\* field, and the defaults are used exactly when no name is resolved.
C39_SiteFieldIsRequestSite ==
    applied.fn = "build"
        => applied.out
               = RequestArgs(siteMgrEntries,
                             SiteNamed(siteMgrEntries,
                                       ResolveApiSiteName(siteMgrEntries,
                                                          applied.arg)),
                             UrlEntry(applied.arg))

(***************************************************************************)
(* The manager's two lists.  APIEntryManager.__init__ takes db.api_pool,   *)
(* with the rows SQLiteDatabase.__init__ has read, as its pool and starts  *)
(* with no entries; initialize builds the entries from the pool.           *)
(***************************************************************************)
\* api_cfg.get("site", "")
SiteOf(row) == IF "site" \in DOMAIN row THEN row.site ELSE <<>>

\* api_cfg["site"] = next_site
WithSite(row, site) ==
    [k \in DOMAIN row \cup {"site"} |-> IF k = "site" THEN site ELSE row[k]]

\* sync_site_fields, the loop over the pool from index on
RECURSIVE SyncLoop(_, _, _, _)
SyncLoop(reg, sites, index, changedRows) ==
    IF index > Len(reg.pool) THEN [reg |-> reg, changedRows |-> changedRows]
    ELSE LET apiCfg == reg.pool[index]
             nextSite == Strip(ResolveApiSiteName(sites, apiCfg.url))
             row == WithSite(apiCfg, nextSite)
             reg1 == WithPool(
                         IF index <= Len(reg.entries)
                         THEN [reg EXCEPT !.entries[index] = APIEntry(row)]
                         ELSE reg,
                         [reg.pool EXCEPT ![index] = row])
         IN IF Strip(SiteOf(apiCfg)) = nextSite
            THEN SyncLoop(reg, sites, index + 1, changedRows)
            ELSE SyncLoop(reg1, sites, index + 1, Append(changedRows, row))

\* sync_site_fields, called by sync_all_api_sites
SyncSiteFields(reg, sites, dbFail) ==
    LET looped == SyncLoop(reg, sites, 1, <<>>)
    IN IF looped.changedRows = <<>>
       THEN [reg |-> looped.reg, raised |-> "none"]
       ELSE BatchUpdateApiPool(looped.reg, looped.changedRows, <<>>, dbFail)

StoredA == ToDict(APIEntry(Payload(<<"a">>, <<"s1", "p">>, TRUE, TRUE, <<>>, <<>>)))

\* the manager as constructed, over a new database file or over one that
\* holds the row a; the site d is registered
InitAlign ==
    /\ table \in {<<>>, <<StoredA>>}
    /\ entries = <<>>
    /\ pool = table
    /\ dbPool = table
    /\ aliased = TRUE
    /\ regLast = RegLastInit
    /\ siteMgrEntries = <<SiteEntry(<<"d">>, <<"s1">>, TRUE, 5)>>
    /\ sitePool = siteMgrEntries

RegInitialize(dbFail) ==
    \E r \in {Initialize(TheReg, dbFail)} :
       /\ SetReg(r.reg)
       /\ Returned("initialize", r.raised, <<>>)
       /\ EmitChanged(FALSE, r.reg.entries)

\* APICoreApp.start: the database is read again, then initialize
AppStart(dbFail) ==
    \E r \in {Initialize(ReloadFromDatabase(TheReg), dbFail)} :
       /\ SetReg(r.reg)
       /\ Returned("initialize", r.raised, <<>>)
       /\ EmitChanged(FALSE, r.reg.entries)

RegSyncSiteFields(dbFail) ==
    \E r \in {SyncSiteFields(TheReg, siteMgrEntries, dbFail)} :
       /\ SetReg(r.reg)
       /\ Returned("sync", r.raised, <<>>)
       /\ EmitChanged(FALSE, r.reg.entries)

NextAlign ==
    \/ \E payloads \in AddLists, dbFail \in BOOLEAN :
          /\ Room(payloads, MaxEntries)
          /\ RegAddEntries(payloads, dbFail) /\ RegFrame
    \/ \E updates \in UpdateLists, dbFail \in BOOLEAN :
          RegUpdateEntries(updates, dbFail) /\ RegFrame
    \/ \E names \in NameLists, dbFail \in BOOLEAN :
          RegRemoveEntries(names, dbFail) /\ RegFrame
    \/ \E names \in NameLists, valid \in BOOLEAN, dbFail \in BOOLEAN :
          RegSetEntriesValid(names, valid, dbFail) /\ RegFrame
    \/ \E dbFail \in BOOLEAN : RegInitialize(dbFail) /\ RegFrame
    \/ \E dbFail \in BOOLEAN : RegSyncSiteFields(dbFail) /\ RegFrame
    \/ \E dbFail \in BOOLEAN : AppStart(dbFail) /\ RegFrame

\* pool and entries have one length and the same names place by place
Aligned(es, rows) ==
    /\ Len(rows) = Len(es)
    /\ \A i \in 1..Len(es) : rows[i].name = es[i].name

\* C40: after any sequence of initialize, add_entries, update_entries,
\* remove_entries, set_entries_valid and sync_site_fields, pool and entries
\* have the same length and pool[i].name = entries[i].name for every i.
C40_AlignedAfterAnyOps ==
    regLast.op # "init" => Aligned(entries, pool)

\* initialize leaves pool and entries aligned, and add_entries,
\* update_entries, remove_entries, set_entries_valid, sync_site_fields and
\* initialize keep them aligned when they were
AlignmentKept ==
    [][/\ regLast'.op = "initialize" => Aligned(entries', pool')
       /\ Aligned(entries, pool) => Aligned(entries', pool')]_vars

\* the stored row a was loaded by initialize, b was added, and
\* sync_site_fields has given a the site d: two entries, two rows, the
\* same names in the same places
AlignedAfterSync ==
    /\ regLast.op = "sync"
    /\ Len(entries) = 2
    /\ Aligned(entries, pool)
    /\ entries[1].name = <<"a">> /\ SiteOf(pool[1]) = <<"d">>
    /\ entries[2].name = <<"b">>

(***************************************************************************)
(* The specifications: each runs one subsystem from the state the program  *)
(* is in after construction and leaves the others at rest.                 *)
(***************************************************************************)
InitSpecStore == InitStore /\ InitConc /\ InitReg /\ InitBatch /\ InitSched /\ InitPure /\ InitSite /\ InitCtl

SpecStore == InitSpecStore /\ [][NextStore]_vars

InitSpecMatch == InitStoreIdle /\ InitConc /\ InitMatch /\ InitBatch /\ InitSched /\ InitPure /\ InitSite /\ InitCtl

SpecMatch == InitSpecMatch /\ [][NextMatch]_vars

InitSpecReg == InitStoreIdle /\ InitConc /\ InitReg /\ InitBatch /\ InitSched /\ InitPure /\ InitSite /\ InitCtl

SpecReg == InitSpecReg /\ [][NextReg]_vars

InitSpecBatch == InitStoreIdle /\ InitConc /\ InitBatchReg /\ InitBatch /\ InitSched /\ InitPure /\ InitSite /\ InitCtl

SpecBatch == InitSpecBatch /\ [][NextBatch]_vars

\* the batch tester when every request returns or fails, the event loop
\* runs the tasks that can run and the consumer reads the stream to its end
InitSpecBatchFair == InitStoreIdle /\ InitConc /\ InitBatchFairReg /\ InitBatch /\ InitSched /\ InitPure /\ InitSite /\ InitCtl

SpecBatchFair ==
    InitSpecBatchFair /\ [][NextBatchFair]_vars /\ WF_vars(BatchRuns)

\* a batch test whose consumer may leave; the loop runs the tasks that
\* are ready
InitSpecAbandon == InitStoreIdle /\ InitConc /\ InitBatchFairReg /\ InitBatch /\ InitSched /\ InitPure /\ InitSite /\ InitCtl

SpecAbandon ==
    InitSpecAbandon /\ [][NextAbandon]_vars /\ WF_vars(WorkerSteps)

InitSpecConc == InitStoreIdle /\ InitConc /\ InitReg /\ InitBatch /\ InitSched /\ InitPure /\ InitSite /\ InitCtl

SpecConc == InitSpecConc /\ [][NextConc]_vars

InitSpecNames == InitStoreIdle /\ InitConc /\ InitReg /\ InitBatch /\ InitSched /\ InitPure /\ InitSite /\ InitCtl

SpecNames == InitSpecNames /\ [][NextNames]_vars

InitSpecSched == InitStoreIdle /\ InitConc /\ InitReg /\ InitBatch /\ InitSched /\ InitPure /\ InitSite /\ InitCtl

SpecSched == InitSpecSched /\ [][NextSched]_vars

\* the content store with its delete operations, over the datasets of one type
InitSpecData == InitStore /\ InitConc /\ InitReg /\ InitBatch /\ InitSched /\ InitPure /\ InitSite /\ InitCtl

SpecData == InitSpecData /\ [][NextData]_vars

\* is_valid applied to one result
InitSpecValid ==
    InitStoreIdle /\ InitConc /\ InitReg /\ InitBatch /\ InitSched /\ InitValid /\ InitSite /\ InitCtl

SpecValid == InitSpecValid /\ [][NextValid]_vars

\* callers that query the registry and assign to what they are given
InitSpecCopy ==
    InitStoreIdle /\ InitConc /\ InitMatch /\ InitBatch /\ InitSched /\ InitPure /\ InitSite /\ InitCtl

SpecCopy == InitSpecCopy /\ [][NextCopy]_vars

\* add_entries applied to one list of payloads
InitSpecAdd ==
    InitStoreIdle /\ InitConc /\ InitAddReg /\ InitBatch /\ InitSched /\ InitAdd /\ InitSite /\ InitCtl

SpecAdd == InitSpecAdd /\ [][NextAdd]_vars

\* callers of _get_dataset_lock
InitSpecLocks == InitStoreIdle /\ InitConc /\ InitReg /\ InitBatch /\ InitSched /\ InitPure /\ InitSite /\ InitCtl

SpecLocks == InitSpecLocks /\ [][NextLocks]_vars

\* calls of restart_process_async and the tasks they leave
InitSpecRestart == InitStoreIdle /\ InitConc /\ InitReg /\ InitBatch /\ InitSched /\ InitPure /\ InitSite /\ InitLocks /\ InitRestart

SpecRestart == InitSpecRestart /\ [][NextRestart]_vars

\* sites, and the entries matched against them
InitSpecSites == InitStoreIdle /\ InitConc /\ InitReg /\ InitBatch /\ InitSched /\ InitPure /\ InitSites /\ InitCtl

SpecSites == InitSpecSites /\ [][NextSites]_vars

\* the registry from its construction on, initialize among the operations
InitSpecAlign == InitStoreIdle /\ InitConc /\ InitAlign /\ InitBatch /\ InitSched /\ InitPure /\ InitCtl

SpecAlign == InitSpecAlign /\ [][NextAlign]_vars

\* the pool files: imports and exports among registry operations
InitSpecIo == InitStoreIdle /\ InitConc /\ InitBatch /\ InitSched /\ InitIo /\ InitCtl

SpecIo == InitSpecIo /\ [][NextIo]_vars

=============================================================================
